---- MODULE Spec2Model ----
(***************************************************************************)
(* Model of reprozip/native/syscalls.c: the per-ABI syscall tables, the    *)
(* syscall handlers and syscall_handle(), driven by the stops the outer    *)
(* wait loop reports.  The build modelled is the X86_64 one (three ABI     *)
(* tables).                                                                *)
(*                                                                         *)
(* Strings are sequences of one-character strings.  A tracee pointer is an *)
(* integer; tracee memory is the fixed map TraceeMem.                      *)
(***************************************************************************)
EXTENDS Integers, Sequences, FiniteSets, TLC

(* ------------------------------------------------------------------ *)
(* Bounds of the model                                                 *)
(* ------------------------------------------------------------------ *)
NSlots == 3
MaxTid == 3
MaxSteps == 4
MaxForkSteps == 6

(* ------------------------------------------------------------------ *)
(* Program constants                                                   *)
(* ------------------------------------------------------------------ *)
X32_SYSCALL_BIT == 1073741824
SYS_CONNECT == 3
SYS_ACCEPT == 5
SYSCALL_I386 == 0
SYSCALL_X86_64 == 1
SYSCALL_X86_64_x32 == 2
SYSCALL_OPENING_OPEN == 1
SYSCALL_OPENING_ACCESS == 2
SYSCALL_OPENING_CREAT == 3
SYSCALL_FORK_FORK == 1
SYSCALL_FORK_VFORK == 2
SYSCALL_FORK_CLONE == 3
CLONE_THREAD == 65536
SanityCeiling == 2000
PROCESS_ARGS == 6

\* values of the headers the file includes (fcntl.h, the sink's database.h)
AT_FDCWD == -100
O_ACCMODE == 3
O_RDONLY == 0
O_WRONLY == 1
O_RDWR == 2
O_CREAT == 64
O_TRUNC == 512
FILE_READ == 1
FILE_WRITE == 2
FILE_WDIR == 4
FILE_STAT == 8

MODE_I386 == "I386"
MODE_X86_64 == "X86_64"
Modes == {MODE_I386, MODE_X86_64}

PROCESS_FREE == "FREE"
PROCESS_ALLOCATED == "ALLOCATED"
PROCESS_ATTACHED == "ATTACHED"
PROCESS_UNKNOWN == "UNKNOWN"

(* ------------------------------------------------------------------ *)
(* Integers of C: current_syscall is a 32-bit two's complement int       *)
(* ------------------------------------------------------------------ *)
\* the low 31 bits of a 32-bit two's complement integer
Low31(n) == IF n < 0 THEN (n + X32_SYSCALL_BIT) + X32_SYSCALL_BIT ELSE n

\* n & bit # 0, for a single-bit mask below the sign bit
HasBit(n, bit) == (Low31(n) \div bit) % 2 = 1

\* (size_t)n < length: a negative int converts to a huge size_t
SizeLess(n, length) == n >= 0 /\ n < length

\* current_syscall & ~__X32_SYSCALL_BIT
StripX32(n) ==
    IF HasBit(n, X32_SYSCALL_BIT) THEN n - X32_SYSCALL_BIT ELSE n

\* a | b for non-negative a and a mask b of distinct single bits
RECURSIVE BitOr(_, _, _)
BitOr(a, b, bit) ==
    IF bit > 1024 THEN 0
    ELSE (IF HasBit(a, bit) \/ HasBit(b, bit) THEN bit ELSE 0)
         + BitOr(a, b, bit * 2)

(* ------------------------------------------------------------------ *)
(* Strings and paths                                                   *)
(* ------------------------------------------------------------------ *)
NULL == <<"NULL">>
FREED == <<"FREED">>
Slash == "/"

RECURSIVE SplitFrom(_, _, _)
SplitFrom(s, i, cur) ==
    IF i > Len(s) THEN <<cur>>
    ELSE IF s[i] = Slash THEN <<cur>> \o SplitFrom(s, i + 1, <<>>)
    ELSE SplitFrom(s, i + 1, Append(cur, s[i]))

\* the segments of a path, empty ones included
SplitPath(s) == SplitFrom(s, 1, <<>>)

RECURSIVE NormSegs(_, _, _)
NormSegs(segs, i, acc) ==
    IF i > Len(segs) THEN acc
    ELSE IF segs[i] = <<>> \/ segs[i] = <<".">> THEN NormSegs(segs, i + 1, acc)
    ELSE IF segs[i] = <<".", ".">>
         THEN NormSegs(segs, i + 1,
                       IF acc = <<>> THEN acc ELSE SubSeq(acc, 1, Len(acc) - 1))
    ELSE NormSegs(segs, i + 1, Append(acc, segs[i]))

RECURSIVE JoinSegs(_, _)
JoinSegs(segs, i) ==
    IF i > Len(segs) THEN <<>>
    ELSE <<Slash>> \o segs[i] \o JoinSegs(segs, i + 1)

\* utils.c abspath(): wd + "/" + path, "." and ".." resolved lexically
abspath(wd, path) ==
    LET segs == NormSegs(SplitPath(wd \o <<Slash>> \o path), 1, <<>>)
    IN IF segs = <<>> THEN <<Slash>> ELSE JoinSegs(segs, 1)

IsAbsolute(path) == Len(path) > 0 /\ path[1] = Slash

\* utils.c flags2mode(): the open flags as FILE_READ / FILE_WRITE bits
flags2mode(flags) ==
    LET acc == flags % (O_ACCMODE + 1)
    IN (IF acc = O_RDONLY \/ acc = O_RDWR THEN FILE_READ ELSE 0)
       + (IF acc = O_WRONLY \/ acc = O_RDWR
             \/ HasBit(flags, O_CREAT) \/ HasBit(flags, O_TRUNC)
          THEN FILE_WRITE ELSE 0)

(* ------------------------------------------------------------------ *)
(* Tracee memory                                                       *)
(* ------------------------------------------------------------------ *)
\* the strings the tracee holds at the pointer values the model uses
TraceeMem(p) ==
    CASE p = 1 -> <<"/", "a">>
      [] p = 2 -> <<"b">>
      [] p = 3 -> <<".", ".">>
      [] p = 5 -> <<"/", "b", "/", ".", ".", "/", "a">>
      \* an address the tracee has not mapped: the read fails
      [] p = 7 -> NULL
      [] OTHER -> <<"b">>

\* ptrace_utils.c tracee_strdup(): the NUL-terminated string at ptr
tracee_strdup(tid, ptr) == TraceeMem(ptr)

\* ptrace_utils.c tracee_strarraydup(): the strings of a pointer array
tracee_strarraydup(mode, tid, ptr) == <<TraceeMem(ptr)>>

(* ------------------------------------------------------------------ *)
(* The syscall tables                                                  *)
(* ------------------------------------------------------------------ *)
\* a table entry with no name and no handler
NullEntry == [name |-> "NULL", proc_entry |-> "NULL", proc_exit |-> "NULL", udata |-> 0]

\* the unordered lists of syscall_build_table(): <<n, name, proc_entry, proc_exit, udata>>
list_i386 ==
    << <<5, "open", "NULL", "syscall_fileopening", SYSCALL_OPENING_OPEN>>,
       <<8, "creat", "NULL", "syscall_fileopening", SYSCALL_OPENING_CREAT>>,
       <<33, "access", "NULL", "syscall_fileopening", SYSCALL_OPENING_ACCESS>>,
       <<106, "stat", "NULL", "syscall_filestat", 0>>,
       <<107, "lstat", "NULL", "syscall_filestat", 0>>,
       <<195, "stat64", "NULL", "syscall_filestat", 0>>,
       <<18, "oldstat", "NULL", "syscall_filestat", 0>>,
       <<196, "lstat64", "NULL", "syscall_filestat", 0>>,
       <<84, "oldlstat", "NULL", "syscall_filestat", 0>>,
       <<85, "readlink", "NULL", "syscall_readlink", 0>>,
       <<39, "mkdir", "NULL", "syscall_mkdir", 0>>,
       <<83, "symlink", "NULL", "syscall_symlink", 0>>,
       <<12, "chdir", "NULL", "syscall_chdir", 0>>,
       <<11, "execve", "syscall_execve_in", "syscall_execve_out", 11>>,
       <<2, "fork", "NULL", "syscall_forking", SYSCALL_FORK_FORK>>,
       <<190, "vfork", "NULL", "syscall_forking", SYSCALL_FORK_VFORK>>,
       <<120, "clone", "NULL", "syscall_forking", SYSCALL_FORK_CLONE>>,
       <<102, "socketcall", "NULL", "syscall_socketcall", 0>>,
       <<296, "mkdirat", "NULL", "syscall_xxx_at", 39>>,
       <<295, "openat", "NULL", "syscall_xxx_at", 5>>,
       <<307, "faccessat", "NULL", "syscall_xxx_at", 33>>,
       <<305, "readlinkat", "NULL", "syscall_xxx_at", 85>>,
       <<300, "fstatat64", "NULL", "syscall_xxx_at", 195>>,
       <<304, "symlinkat", "NULL", "syscall_symlink", 1>>,
       <<38, "rename", "NULL", "syscall_unhandled_path1", 0>>,
       <<40, "rmdir", "NULL", "syscall_unhandled_path1", 0>>,
       <<9, "link", "NULL", "syscall_unhandled_path1", 0>>,
       <<92, "truncate", "NULL", "syscall_unhandled_path1", 0>>,
       <<193, "truncate64", "NULL", "syscall_unhandled_path1", 0>>,
       <<10, "unlink", "NULL", "syscall_unhandled_path1", 0>>,
       <<15, "chmod", "NULL", "syscall_unhandled_path1", 0>>,
       <<182, "chown", "NULL", "syscall_unhandled_path1", 0>>,
       <<212, "chown32", "NULL", "syscall_unhandled_path1", 0>>,
       <<16, "lchown", "NULL", "syscall_unhandled_path1", 0>>,
       <<198, "lchown32", "NULL", "syscall_unhandled_path1", 0>>,
       <<30, "utime", "NULL", "syscall_unhandled_path1", 0>>,
       <<271, "utimes", "NULL", "syscall_unhandled_path1", 0>>,
       <<277, "mq_open", "NULL", "syscall_unhandled_path1", 0>>,
       <<278, "mq_unlink", "NULL", "syscall_unhandled_path1", 0>>,
       <<303, "linkat", "NULL", "syscall_unhandled_other", 0>>,
       <<302, "renameat", "NULL", "syscall_unhandled_other", 0>>,
       <<301, "unlinkat", "NULL", "syscall_unhandled_other", 0>>,
       <<306, "fchmodat", "NULL", "syscall_unhandled_other", 0>>,
       <<298, "fchownat", "NULL", "syscall_unhandled_other", 0>>,
       <<26, "ptrace", "NULL", "syscall_unhandled_other", 0>>,
       <<341, "name_to_handle_at", "NULL", "syscall_unhandled_other", 0>> >>

list_x86_64 ==
    << <<2, "open", "NULL", "syscall_fileopening", SYSCALL_OPENING_OPEN>>,
       <<85, "creat", "NULL", "syscall_fileopening", SYSCALL_OPENING_CREAT>>,
       <<21, "access", "NULL", "syscall_fileopening", SYSCALL_OPENING_ACCESS>>,
       <<4, "stat", "NULL", "syscall_filestat", 0>>,
       <<6, "lstat", "NULL", "syscall_filestat", 0>>,
       <<89, "readlink", "NULL", "syscall_readlink", 0>>,
       <<83, "mkdir", "NULL", "syscall_mkdir", 0>>,
       <<88, "symlink", "NULL", "syscall_symlink", 0>>,
       <<80, "chdir", "NULL", "syscall_chdir", 0>>,
       <<59, "execve", "syscall_execve_in", "syscall_execve_out", 59>>,
       <<57, "fork", "NULL", "syscall_forking", SYSCALL_FORK_FORK>>,
       <<58, "vfork", "NULL", "syscall_forking", SYSCALL_FORK_VFORK>>,
       <<56, "clone", "NULL", "syscall_forking", SYSCALL_FORK_CLONE>>,
       <<43, "accept", "NULL", "syscall_accept", 0>>,
       <<288, "accept4", "NULL", "syscall_accept", 0>>,
       <<42, "connect", "NULL", "syscall_connect", 0>>,
       <<258, "mkdirat", "NULL", "syscall_xxx_at", 83>>,
       <<257, "openat", "NULL", "syscall_xxx_at", 2>>,
       <<269, "faccessat", "NULL", "syscall_xxx_at", 21>>,
       <<267, "readlinkat", "NULL", "syscall_xxx_at", 89>>,
       <<262, "newfstatat", "NULL", "syscall_xxx_at", 4>>,
       <<266, "symlinkat", "NULL", "syscall_symlink", 1>>,
       <<82, "rename", "NULL", "syscall_unhandled_path1", 0>>,
       <<84, "rmdir", "NULL", "syscall_unhandled_path1", 0>>,
       <<86, "link", "NULL", "syscall_unhandled_path1", 0>>,
       <<76, "truncate", "NULL", "syscall_unhandled_path1", 0>>,
       <<87, "unlink", "NULL", "syscall_unhandled_path1", 0>>,
       <<90, "chmod", "NULL", "syscall_unhandled_path1", 0>>,
       <<92, "chown", "NULL", "syscall_unhandled_path1", 0>>,
       <<94, "lchown", "NULL", "syscall_unhandled_path1", 0>>,
       <<132, "utime", "NULL", "syscall_unhandled_path1", 0>>,
       <<235, "utimes", "NULL", "syscall_unhandled_path1", 0>>,
       <<240, "mq_open", "NULL", "syscall_unhandled_path1", 0>>,
       <<241, "mq_unlink", "NULL", "syscall_unhandled_path1", 0>>,
       <<265, "linkat", "NULL", "syscall_unhandled_other", 0>>,
       <<264, "renameat", "NULL", "syscall_unhandled_other", 0>>,
       <<263, "unlinkat", "NULL", "syscall_unhandled_other", 0>>,
       <<268, "fchmodat", "NULL", "syscall_unhandled_other", 0>>,
       <<260, "fchownat", "NULL", "syscall_unhandled_other", 0>>,
       <<101, "ptrace", "NULL", "syscall_unhandled_other", 0>>,
       <<303, "name_to_handle_at", "NULL", "syscall_unhandled_other", 0>> >>

list_x32 ==
    << <<2, "open", "NULL", "syscall_fileopening", SYSCALL_OPENING_OPEN>>,
       <<85, "creat", "NULL", "syscall_fileopening", SYSCALL_OPENING_CREAT>>,
       <<21, "access", "NULL", "syscall_fileopening", SYSCALL_OPENING_ACCESS>>,
       <<4, "stat", "NULL", "syscall_filestat", 0>>,
       <<6, "lstat", "NULL", "syscall_filestat", 0>>,
       <<89, "readlink", "NULL", "syscall_readlink", 0>>,
       <<83, "mkdir", "NULL", "syscall_mkdir", 0>>,
       <<88, "symlink", "NULL", "syscall_symlink", 0>>,
       <<80, "chdir", "NULL", "syscall_chdir", 0>>,
       <<520, "execve", "syscall_execve_in", "syscall_execve_out", X32_SYSCALL_BIT + 520>>,
       <<57, "fork", "NULL", "syscall_forking", SYSCALL_FORK_FORK>>,
       <<58, "vfork", "NULL", "syscall_forking", SYSCALL_FORK_VFORK>>,
       <<56, "clone", "NULL", "syscall_forking", SYSCALL_FORK_CLONE>>,
       <<43, "accept", "NULL", "syscall_accept", 0>>,
       <<288, "accept4", "NULL", "syscall_accept", 0>>,
       <<42, "connect", "NULL", "syscall_connect", 0>>,
       <<258, "mkdirat", "NULL", "syscall_xxx_at", 83>>,
       <<257, "openat", "NULL", "syscall_xxx_at", 2>>,
       <<269, "faccessat", "NULL", "syscall_xxx_at", 21>>,
       <<267, "readlinkat", "NULL", "syscall_xxx_at", 89>>,
       <<262, "newfstatat", "NULL", "syscall_xxx_at", 4>>,
       <<266, "symlinkat", "NULL", "syscall_symlink", 1>>,
       <<82, "rename", "NULL", "syscall_unhandled_path1", 0>>,
       <<84, "rmdir", "NULL", "syscall_unhandled_path1", 0>>,
       <<86, "link", "NULL", "syscall_unhandled_path1", 0>>,
       <<76, "truncate", "NULL", "syscall_unhandled_path1", 0>>,
       <<87, "unlink", "NULL", "syscall_unhandled_path1", 0>>,
       <<90, "chmod", "NULL", "syscall_unhandled_path1", 0>>,
       <<92, "chown", "NULL", "syscall_unhandled_path1", 0>>,
       <<94, "lchown", "NULL", "syscall_unhandled_path1", 0>>,
       <<132, "utime", "NULL", "syscall_unhandled_path1", 0>>,
       <<235, "utimes", "NULL", "syscall_unhandled_path1", 0>>,
       <<240, "mq_open", "NULL", "syscall_unhandled_path1", 0>>,
       <<241, "mq_unlink", "NULL", "syscall_unhandled_path1", 0>>,
       <<265, "linkat", "NULL", "syscall_unhandled_other", 0>>,
       <<264, "renameat", "NULL", "syscall_unhandled_other", 0>>,
       <<263, "unlinkat", "NULL", "syscall_unhandled_other", 0>>,
       <<268, "fchmodat", "NULL", "syscall_unhandled_other", 0>>,
       <<260, "fchownat", "NULL", "syscall_unhandled_other", 0>>,
       <<521, "ptrace", "NULL", "syscall_unhandled_other", 0>>,
       <<303, "name_to_handle_at", "NULL", "syscall_unhandled_other", 0>> >>

RECURSIVE MeasureTable(_, _, _)
MeasureTable(orig, k, length) ==
    IF k > Len(orig) THEN length
    ELSE MeasureTable(orig, k + 1,
                      IF orig[k][1] + 1 > length THEN orig[k][1] + 1 ELSE length)

\* index of the last list element for syscall n (later copies overwrite), 0 if none
LastListed(orig, n) ==
    LET ks == {k \in 1..Len(orig) : orig[k][1] = n}
    IN IF ks = {} THEN 0 ELSE CHOOSE k \in ks : \A j \in ks : j <= k

process_table(orig) ==
    LET length == MeasureTable(orig, 1, 0)
    IN [length |-> length,
        entries |-> [n \in 0..(length - 1) |->
                        LET k == LastListed(orig, n)
                        IN IF k = 0 THEN NullEntry
                           ELSE [name |-> orig[k][2], proc_entry |-> orig[k][3],
                                 proc_exit |-> orig[k][4], udata |-> orig[k][5]]]]

\* syscall_tables[SYSCALL_I386], [SYSCALL_X86_64], [SYSCALL_X86_64_x32]
syscall_tables ==
    [t \in {SYSCALL_I386, SYSCALL_X86_64, SYSCALL_X86_64_x32} |->
        IF t = SYSCALL_I386 THEN process_table(list_i386)
        ELSE IF t = SYSCALL_X86_64 THEN process_table(list_x86_64)
        ELSE process_table(list_x32)]

(* ------------------------------------------------------------------ *)
(* Processes, and the machine a dispatch runs on                       *)
(* ------------------------------------------------------------------ *)
Slots == 1..NSlots
\* the tids the kernel gives new tasks (tid 1 is the first traced process)
Tids == 2..MaxTid

\* syscall_info == NULL
NullInfo == [isnull |-> TRUE, binary |-> <<>>, argv |-> <<>>, envp |-> <<>>]
\* what a read through a null ExecveInfo pointer yields when it does not trap
GarbageInfo == [isnull |-> FALSE, binary |-> <<"?">>, argv |-> <<>>, envp |-> <<>>]

ZeroParams == [k \in 0..(PROCESS_ARGS - 1) |-> 0]

\* struct Process of a slot that was never used
FreeProcess ==
    [status |-> PROCESS_FREE, tid |-> 0, tgid |-> 0, wd |-> NULL,
     in_syscall |-> FALSE, current_syscall |-> -1, identifier |-> 0,
     syscall_info |-> NullInfo,
     mode |-> MODE_X86_64, params |-> ZeroParams, retvalue |-> 0]

\* one call made on the event sink or the log
Ev(op, id, path, n, dir, args, wd, name) ==
    [op |-> op, id |-> id, path |-> path, n |-> n, dir |-> dir,
     args |-> args, wd |-> wd, name |-> name]

SinkOps == {"add_file_open", "add_exec", "add_exit", "add_process", "add_files_from_proc"}

\* the machine: the registry, what the dispatch has emitted so far, and the
\* environment's answers to the calls the dispatch makes
Machine(ps, nid, verb, failAt, isdir, ub) ==
    [procs |-> ps, out |-> <<>>, nextId |-> nid, verbosity |-> verb,
     calls |-> 0, failAt |-> failAt, isdir |-> isdir, ub |-> ub,
     status |-> 0, ret |-> 0, crashed |-> FALSE, ubhit |-> FALSE,
     resumed |-> <<>>, resumedAt |-> <<>>, tread |-> "none", entry |-> NullEntry]

Ret(m, r) == [m EXCEPT !.ret = r]

\* undefined behaviour: the process dies, or goes on ("benign") as the caller says
Crash(m) == [m EXCEPT !.crashed = TRUE, !.ubhit = TRUE, !.ret = -1]

SinkCall(m, ev) ==
    [m EXCEPT !.out = Append(@, ev), !.calls = @ + 1,
              !.status = IF m.calls + 1 = m.failAt THEN -1 ELSE 0]

Log(m, level, tid, name, path) ==
    [m EXCEPT !.out = Append(@, Ev(level, tid, path, 0, FALSE, <<>>, <<>>, name))]

db_add_file_open(m, id, path, mode, isdir) ==
    SinkCall(m, Ev("add_file_open", id, path, mode, isdir, <<>>, <<>>, ""))

db_add_exec(m, id, binary, argv, envp, wd) ==
    SinkCall(m, Ev("add_exec", id, binary, 0, FALSE, <<argv, envp>>, wd, ""))

db_add_exit(m, id, code) ==
    SinkCall(m, Ev("add_exit", id, <<>>, code, FALSE, <<>>, <<>>, ""))

trace_add_files_from_proc(m, id, tid, binary) ==
    SinkCall(m, Ev("add_files_from_proc", id, binary, tid, FALSE, <<>>, <<>>, ""))

\* db_add_process(): the sink vends the next identifier into slot j
db_add_process(m, j, parent, wd) ==
    LET m1 == SinkCall(m, Ev("add_process", parent, <<>>, m.nextId, FALSE, <<>>, wd, ""))
    IN IF m1.status # 0 THEN m1
       ELSE [m1 EXCEPT !.procs[j].identifier = m.nextId, !.nextId = @ + 1]

\* ptrace(PTRACE_SYSCALL, tid); resumedAt keeps how many sink and log calls
\* the dispatch had made when it resumed the task
ptrace_syscall(m, tid) ==
    [m EXCEPT !.resumed = Append(@, tid), !.resumedAt = Append(@, Len(m.out))]

\* tracer.c path_is_dir(): a stat() on the tracer's file system
path_is_dir(m, pathname) == m.isdir

\* tracer.c trace_find_process()
trace_find_process(ps, tid) ==
    LET js == {j \in Slots : ps[j].status # PROCESS_FREE /\ ps[j].tid = tid}
    IN IF js = {} THEN 0 ELSE CHOOSE j \in js : \A k \in js : j <= k

\* tracer.c trace_get_empty_process(): the first free slot (0: none left in the model)
trace_get_empty_process(ps) ==
    LET js == {j \in Slots : ps[j].status = PROCESS_FREE}
    IN IF js = {} THEN 0 ELSE CHOOSE j \in js : \A k \in js : j <= k

(* ------------------------------------------------------------------ *)
(* The handlers                                                        *)
(* ------------------------------------------------------------------ *)
\* abs_path_arg() without the resolution against the working directory
abs_path_arg_unresolved(process, arg) ==
    tracee_strdup(process.tid, process.params[arg])

\* abs_path_arg() that resolves every path, absolute ones too
abs_path_arg_always_resolved(process, arg) ==
    abspath(process.wd, tracee_strdup(process.tid, process.params[arg]))

abs_path_arg(process, arg) ==
    LET pathname == tracee_strdup(process.tid, process.params[arg])
    IN IF Len(pathname) = 0 \/ pathname[1] # Slash
       THEN abspath(process.wd, pathname)
       ELSE pathname

\* pathname[0] in abs_path_arg(): the handler goes on to r when
\* tracee_strdup() gave a string; when the read failed there is no string and
\* the access is undefined
PathRead(m, process, arg, r) ==
    IF tracee_strdup(process.tid, process.params[arg]) # NULL THEN r
    ELSE IF m.ub = "crash" THEN Crash(m)
    ELSE [r EXCEPT !.ubhit = TRUE]

syscall_unhandled_path1(m, i, name, udata) ==
    LET process == m.procs[i]
    IN IF m.verbosity >= 1 /\ process.in_syscall /\ process.retvalue >= 0
          /\ name # "NULL"
       THEN PathRead(m, process, 0,
                     Ret(Log(m, "log_warn", process.tid, name, abs_path_arg(process, 0)), 0))
       ELSE Ret(m, 0)

syscall_unhandled_other(m, i, name, udata) ==
    LET process == m.procs[i]
    IN IF m.verbosity >= 1 /\ process.in_syscall /\ process.retvalue >= 0
          /\ name # "NULL"
       THEN Ret(Log(m, "log_warn", process.tid, name, <<>>), 0)
       ELSE Ret(m, 0)

\* EmitFileOpen() that records only when the tracer is verbose
EmitFileOpen_when_verbose(m, process, pathname, mode, isdir) ==
    IF process.retvalue >= 0 /\ m.verbosity >= 1
    THEN LET m1 == db_add_file_open(m, process.identifier, pathname, mode, isdir)
         IN Ret(m1, IF m1.status # 0 THEN -1 ELSE 0)
    ELSE Ret(m, 0)

\* if(process->retvalue.i >= 0) { if(db_add_file_open(...) != 0) return -1; } return 0;
EmitFileOpen(m, process, pathname, mode, isdir) ==
    IF process.retvalue >= 0
    THEN LET m1 == db_add_file_open(m, process.identifier, pathname, mode, isdir)
         IN Ret(m1, IF m1.status # 0 THEN -1 ELSE 0)
    ELSE Ret(m, 0)

\* syscall_fileopening() that takes creat's argument 1 as it is
syscall_fileopening_creat_as_open(m, i, name, syscall) ==
    LET process == m.procs[i]
        pathname == abs_path_arg(process, 0)
        mode == IF syscall = SYSCALL_OPENING_ACCESS THEN FILE_STAT
                ELSE flags2mode(process.params[1])
    IN PathRead(m, process, 0,
                EmitFileOpen(m, process, pathname, mode, path_is_dir(m, pathname)))

syscall_fileopening(m, i, name, syscall) ==
    LET process == m.procs[i]
        pathname == abs_path_arg(process, 0)
        mode == IF syscall = SYSCALL_OPENING_ACCESS THEN FILE_STAT
                ELSE IF syscall = SYSCALL_OPENING_CREAT
                     THEN flags2mode(BitOr(process.params[1],
                                           O_CREAT + O_WRONLY + O_TRUNC, 1))
                ELSE flags2mode(process.params[1])
    IN PathRead(m, process, 0,
                EmitFileOpen(m, process, pathname, mode, path_is_dir(m, pathname)))

syscall_filestat(m, i, name, udata) ==
    LET process == m.procs[i]
        pathname == abs_path_arg(process, 0)
    IN PathRead(m, process, 0,
                EmitFileOpen(m, process, pathname, FILE_STAT, path_is_dir(m, pathname)))

syscall_readlink(m, i, name, udata) ==
    LET process == m.procs[i]
    IN PathRead(m, process, 0,
                EmitFileOpen(m, process, abs_path_arg(process, 0), FILE_STAT, FALSE))

syscall_mkdir(m, i, name, udata) ==
    LET process == m.procs[i]
    IN PathRead(m, process, 0,
                EmitFileOpen(m, process, abs_path_arg(process, 0), FILE_WRITE, TRUE))

\* syscall_symlink() that takes every directory descriptor for AT_FDCWD
syscall_symlink_any_dirfd(m, i, name, is_symlinkat) ==
    LET process == m.procs[i]
        pathname == IF is_symlinkat # 0 THEN abs_path_arg(process, 2)
                    ELSE abs_path_arg(process, 1)
    IN PathRead(m, process, IF is_symlinkat # 0 THEN 2 ELSE 1,
                EmitFileOpen(m, process, pathname, FILE_WRITE, TRUE))

syscall_symlink(m, i, name, is_symlinkat) ==
    LET process == m.procs[i]
    IN IF is_symlinkat # 0 /\ process.params[1] # AT_FDCWD
       THEN syscall_unhandled_other(m, i, name, 0)
       ELSE LET pathname == IF is_symlinkat # 0 THEN abs_path_arg(process, 2)
                            ELSE abs_path_arg(process, 1)
            IN PathRead(m, process, IF is_symlinkat # 0 THEN 2 ELSE 1,
                        EmitFileOpen(m, process, pathname, FILE_WRITE, TRUE))

\* syscall_chdir() that stores the new wd before it looks at retvalue
syscall_chdir_before_check(m, i, name, udata) ==
    LET process == m.procs[i]
        pathname == abs_path_arg(process, 0)
        m1 == [m EXCEPT !.procs[i].wd = pathname]
    IN PathRead(m, process, 0,
          IF process.retvalue >= 0
          THEN LET m2 == db_add_file_open(m1, process.identifier, pathname, FILE_WDIR, TRUE)
               IN Ret(m2, IF m2.status # 0 THEN -1 ELSE 0)
          ELSE Ret(m1, 0))

\* syscall_chdir() that moves every task of the thread group
syscall_chdir_whole_group(m, i, name, udata) ==
    LET process == m.procs[i]
        pathname == abs_path_arg(process, 0)
    IN PathRead(m, process, 0,
          IF process.retvalue >= 0
          THEN LET m1 == [m EXCEPT !.procs =
                             [j \in Slots |->
                                IF m.procs[j].status # PROCESS_FREE
                                   /\ m.procs[j].tgid = process.tgid
                                THEN [m.procs[j] EXCEPT !.wd = pathname]
                                ELSE m.procs[j]]]
                   m2 == db_add_file_open(m1, process.identifier, pathname, FILE_WDIR, TRUE)
               IN Ret(m2, IF m2.status # 0 THEN -1 ELSE 0)
          ELSE Ret(m, 0))

syscall_chdir(m, i, name, udata) ==
    LET process == m.procs[i]
        pathname == abs_path_arg(process, 0)
    IN PathRead(m, process, 0,
          IF process.retvalue >= 0
          THEN LET m1 == [m EXCEPT !.procs[i].wd = pathname]
                   m2 == db_add_file_open(m1, process.identifier, pathname, FILE_WDIR, TRUE)
               IN Ret(m2, IF m2.status # 0 THEN -1 ELSE 0)
          ELSE Ret(m, 0))

\* syscall_execve_in() that reports the exec at the entry
syscall_execve_in_emits(m, i, name, udata) ==
    LET process == m.procs[i]
        execi == [isnull |-> FALSE,
                  binary |-> abs_path_arg(process, 0),
                  argv |-> tracee_strarraydup(process.mode, process.tid, process.params[1]),
                  envp |-> tracee_strarraydup(process.mode, process.tid, process.params[2])]
    IN PathRead(m, process, 0,
                Ret(db_add_exec([m EXCEPT !.procs[i].syscall_info = execi],
                                process.identifier, execi.binary, execi.argv,
                                execi.envp, process.wd), 0))

syscall_execve_in(m, i, name, udata) ==
    LET process == m.procs[i]
        execi == [isnull |-> FALSE,
                  binary |-> abs_path_arg(process, 0),
                  argv |-> tracee_strarraydup(process.mode, process.tid, process.params[1]),
                  envp |-> tracee_strarraydup(process.mode, process.tid, process.params[2])]
    IN PathRead(m, process, 0, Ret([m EXCEPT !.procs[i].syscall_info = execi], 0))

\* the loop of syscall_execve_out() and of syscall_handle(): the tasks that are
\* ATTACHED, in the thread group, in a syscall numbered nr, holding a scratch
MidExecve(ps, tgid, nr) ==
    {j \in Slots : /\ ps[j].status = PROCESS_ATTACHED
                   /\ ps[j].tgid = tgid
                   /\ ps[j].in_syscall
                   /\ ps[j].current_syscall = nr
                   /\ ~ps[j].syscall_info.isnull}

\* ExecveFinish() without exec_process->syscall_info = NULL
ExecveFinish_keeps_scratch(m, i, x, execi) ==
    LET process == m.procs[i]
        m1 == IF process.retvalue >= 0
              THEN db_add_exec(m, process.identifier, execi.binary,
                               execi.argv, execi.envp, process.wd)
              ELSE m
        m2 == IF process.retvalue >= 0 /\ m1.status = 0
              THEN trace_add_files_from_proc(m1, process.identifier, process.tid,
                                             execi.binary)
              ELSE m1
    IN IF process.retvalue >= 0 /\ m2.status # 0 THEN Ret(m2, -1)
       ELSE Ret(m2, 0)

\* the second half of syscall_execve_out(): the exec event, then the release
ExecveFinish(m, i, x, execi) ==
    LET process == m.procs[i]
        m1 == IF process.retvalue >= 0
              THEN db_add_exec(m, process.identifier, execi.binary,
                               execi.argv, execi.envp, process.wd)
              ELSE m
        m2 == IF process.retvalue >= 0 /\ m1.status = 0
              THEN trace_add_files_from_proc(m1, process.identifier, process.tid,
                                             execi.binary)
              ELSE m1
    IN IF process.retvalue >= 0 /\ m2.status # 0 THEN Ret(m2, -1)
       ELSE Ret([m2 EXCEPT !.procs[x].syscall_info = NullInfo], 0)

syscall_execve_out(m, i, name, execve_syscall) ==
    LET process == m.procs[i]
    IN IF ~process.syscall_info.isnull
       THEN ExecveFinish(m, i, i, process.syscall_info)
       ELSE LET found == MidExecve(m.procs, process.tgid, execve_syscall)
                \* exec_process starts as process and is never NULL
                x == IF found = {} THEN i
                     ELSE CHOOSE j \in found : \A k \in found : j <= k
                execi == m.procs[x].syscall_info
                m1 == db_add_exit(m, m.procs[x].identifier, 0)
                m2 == [m1 EXCEPT !.procs[x].wd = FREED,
                                 !.procs[x].status = PROCESS_FREE]
            IN IF m1.status # 0 THEN Ret(m1, -1)
               ELSE IF ~execi.isnull THEN ExecveFinish(m2, i, x, execi)
               \* execi is NULL and is dereferenced
               ELSE IF m.ub = "crash" THEN Crash(m2)
               ELSE ExecveFinish([m2 EXCEPT !.ubhit = TRUE], i, x, GarbageInfo)

\* syscall_forking() that fills in tgid and wd only for a fresh slot
syscall_forking_fresh_only(m, i, name, syscall) ==
    LET process == m.procs[i]
        new_tid == process.retvalue
        is_thread == syscall = SYSCALL_FORK_CLONE
                     /\ HasBit(process.params[0], CLONE_THREAD)
        known == trace_find_process(m.procs, new_tid)
        j == IF known # 0 THEN known ELSE trace_get_empty_process(m.procs)
        m2 == IF known # 0
              THEN ptrace_syscall([m EXCEPT !.procs[j].status = PROCESS_ATTACHED],
                                  m.procs[j].tid)
              ELSE [m EXCEPT !.procs[j].status = PROCESS_ALLOCATED,
                             !.procs[j].tid = new_tid,
                             !.procs[j].in_syscall = FALSE,
                             !.procs[j].tgid = IF is_thread THEN process.tgid
                                               ELSE new_tid,
                             !.procs[j].wd = process.wd]
        m3 == db_add_process(m2, j, process.identifier, process.wd)
    IN IF process.retvalue > 0
       THEN IF known # 0 /\ m.procs[known].status # PROCESS_UNKNOWN
            THEN Ret(Log(m, "log_critical", new_tid, "already running", <<>>), -1)
            ELSE Ret(m3, IF m3.status # 0 THEN -1 ELSE 0)
       ELSE Ret(m, 0)

\* syscall_forking() that takes every clone() for a thread
syscall_forking_clone_is_thread(m, i, name, syscall) ==
    LET process == m.procs[i]
        new_tid == process.retvalue
        is_thread == syscall = SYSCALL_FORK_CLONE
        known == trace_find_process(m.procs, new_tid)
        j == IF known # 0 THEN known ELSE trace_get_empty_process(m.procs)
        m1 == IF known # 0
              THEN ptrace_syscall([m EXCEPT !.procs[j].status = PROCESS_ATTACHED],
                                  m.procs[j].tid)
              ELSE [m EXCEPT !.procs[j].status = PROCESS_ALLOCATED,
                             !.procs[j].tid = new_tid,
                             !.procs[j].in_syscall = FALSE]
        m2 == [m1 EXCEPT !.procs[j].tgid = IF is_thread THEN process.tgid
                                           ELSE m1.procs[j].tid,
                         !.procs[j].wd = process.wd]
        m3 == db_add_process(m2, j, process.identifier, process.wd)
    IN IF process.retvalue > 0
       THEN IF known # 0 /\ m.procs[known].status # PROCESS_UNKNOWN
            THEN Ret(Log(m, "log_critical", new_tid, "already running", <<>>), -1)
            ELSE Ret(m3, IF m3.status # 0 THEN -1 ELSE 0)
       ELSE Ret(m, 0)

\* syscall_forking() that gives a thread the tid of its creator as tgid
syscall_forking_tgid_of_parent(m, i, name, syscall) ==
    LET process == m.procs[i]
        new_tid == process.retvalue
        is_thread == syscall = SYSCALL_FORK_CLONE
                     /\ HasBit(process.params[0], CLONE_THREAD)
        known == trace_find_process(m.procs, new_tid)
        j == IF known # 0 THEN known ELSE trace_get_empty_process(m.procs)
        m1 == IF known # 0
              THEN ptrace_syscall([m EXCEPT !.procs[j].status = PROCESS_ATTACHED],
                                  m.procs[j].tid)
              ELSE [m EXCEPT !.procs[j].status = PROCESS_ALLOCATED,
                             !.procs[j].tid = new_tid,
                             !.procs[j].in_syscall = FALSE]
        m2 == [m1 EXCEPT !.procs[j].tgid = IF is_thread THEN process.tid
                                           ELSE m1.procs[j].tid,
                         !.procs[j].wd = process.wd]
        m3 == db_add_process(m2, j, process.identifier, process.wd)
    IN IF process.retvalue > 0
       THEN IF known # 0 /\ m.procs[known].status # PROCESS_UNKNOWN
            THEN Ret(Log(m, "log_critical", new_tid, "already running", <<>>), -1)
            ELSE Ret(m3, IF m3.status # 0 THEN -1 ELSE 0)
       ELSE Ret(m, 0)

syscall_forking(m, i, name, syscall) ==
    LET process == m.procs[i]
        new_tid == process.retvalue
        is_thread == syscall = SYSCALL_FORK_CLONE
                     /\ HasBit(process.params[0], CLONE_THREAD)
        known == trace_find_process(m.procs, new_tid)
        j == IF known # 0 THEN known ELSE trace_get_empty_process(m.procs)
        m1 == IF known # 0
              THEN ptrace_syscall([m EXCEPT !.procs[j].status = PROCESS_ATTACHED],
                                  m.procs[j].tid)
              ELSE [m EXCEPT !.procs[j].status = PROCESS_ALLOCATED,
                             !.procs[j].tid = new_tid,
                             !.procs[j].in_syscall = FALSE]
        m2 == [m1 EXCEPT !.procs[j].tgid = IF is_thread THEN process.tgid
                                           ELSE m1.procs[j].tid,
                         !.procs[j].wd = process.wd]
        m3 == db_add_process(m2, j, process.identifier, process.wd)
    IN IF process.retvalue > 0
       THEN IF known # 0 /\ m.procs[known].status # PROCESS_UNKNOWN
            THEN Ret(Log(m, "log_critical", new_tid, "already running", <<>>), -1)
            ELSE Ret(m3, IF m3.status # 0 THEN -1 ELSE 0)
       ELSE Ret(m, 0)

\* the socklen_t / long the tracee holds at an address
TraceeWord(addr) == IF addr = 1 THEN 0 ELSE 16

handle_accept(m, i, arg1, arg2) ==
    LET process == m.procs[i]
        addrlen == TraceeWord(arg2)
    IN IF addrlen >= 2
       THEN Ret(Log(m, "log_warn", process.tid, "accepted a connection", <<>>), 0)
       ELSE Ret(m, 0)

\* handle_connect() that warns only of a connect that succeeded
handle_connect_on_success(m, i, arg1, addrlen) ==
    LET process == m.procs[i]
    IN IF addrlen >= 2 /\ process.retvalue >= 0
       THEN Ret(Log(m, "log_warn", process.tid, "connected", <<>>), 0)
       ELSE Ret(m, 0)

handle_connect(m, i, arg1, addrlen) ==
    LET process == m.procs[i]
    IN IF addrlen >= 2
       THEN Ret(Log(m, "log_warn", process.tid, "connected", <<>>), 0)
       ELSE Ret(m, 0)

syscall_socketcall(m, i, name, udata) ==
    LET process == m.procs[i]
        args == process.params[1]
    IN IF process.params[0] = SYS_ACCEPT
       THEN handle_accept(m, i, args, args)
       ELSE IF process.params[0] = SYS_CONNECT
       THEN handle_connect(m, i, args, TraceeWord(args))
       ELSE Ret(m, 0)

syscall_accept(m, i, name, udata) ==
    handle_accept(m, i, m.procs[i].params[1], m.procs[i].params[2])

syscall_connect(m, i, name, udata) ==
    handle_connect(m, i, m.procs[i].params[1], m.procs[i].params[2])

\* the table the task's mode and syscall number select
SyscallType(process) ==
    IF process.mode = MODE_I386 THEN SYSCALL_I386
    ELSE IF HasBit(process.current_syscall, X32_SYSCALL_BIT) THEN SYSCALL_X86_64_x32
    ELSE SYSCALL_X86_64

\* the *at dispatcher without the shift
ShiftParams_none(params) == params

\* for(i = 0; i < PROCESS_ARGS - 1; ++i) params[i] = params[i + 1];
ShiftParams(params) ==
    [k \in 0..(PROCESS_ARGS - 1) |->
        IF k < PROCESS_ARGS - 1 THEN params[k + 1] ELSE params[k]]

\* the shift back without params[0] = arg0
UnshiftParams_drops_arg0(params, arg0) ==
    [k \in 0..(PROCESS_ARGS - 1) |-> IF k = 0 THEN params[0] ELSE params[k - 1]]

\* for(i = PROCESS_ARGS; i > 1; --i) params[i - 1] = params[i - 2]; params[0] = arg0;
UnshiftParams(params, arg0) ==
    [k \in 0..(PROCESS_ARGS - 1) |-> IF k = 0 THEN arg0 ELSE params[k - 1]]

RECURSIVE CallHandler(_, _, _, _, _)

\* tbl->entries[n] for an n inside the table, an entry without a name outside
LookupEntry(tbl, n) ==
    IF SizeLess(n, tbl.length) THEN tbl.entries[n] ELSE NullEntry

\* the *at dispatcher that returns 0 whatever the handler it called returned
xxx_at_with_entry_drops_ret(m, i, name, entry) ==
    LET process == m.procs[i]
    IN IF process.params[0] = AT_FDCWD
       THEN IF entry.name = "NULL" \/ entry.proc_exit = "NULL"
            THEN Ret(Log(m, "log_critical", process.tid, "INVALID SYSCALL in *at dispatch", <<>>), 0)
            ELSE Ret([CallHandler(entry.proc_exit,
                                  [m EXCEPT !.procs[i].params = ShiftParams(@)],
                                  i, name, entry.udata)
                        EXCEPT !.procs[i].params = UnshiftParams(@, process.params[0])],
                     0)
       ELSE syscall_unhandled_other(m, i, name, 0)

\* the body of syscall_xxx_at() once the entry of real_syscall is looked up
xxx_at_with_entry(m, i, name, entry) ==
    LET process == m.procs[i]
    IN IF process.params[0] = AT_FDCWD
       THEN IF entry.name = "NULL" \/ entry.proc_exit = "NULL"
            THEN Ret(Log(m, "log_critical", process.tid, "INVALID SYSCALL in *at dispatch", <<>>), 0)
            ELSE [CallHandler(entry.proc_exit,
                              [m EXCEPT !.procs[i].params = ShiftParams(@)],
                              i, name, entry.udata)
                    EXCEPT !.procs[i].params = UnshiftParams(@, process.params[0])]
       ELSE syscall_unhandled_other(m, i, name, 0)

syscall_xxx_at(m, i, name, real_syscall) ==
    xxx_at_with_entry(m, i, name,
                      LookupEntry(syscall_tables[SyscallType(m.procs[i])], real_syscall))

\* a call through a table entry's function pointer
CallHandler(h, m, i, name, udata) ==
    CASE h = "syscall_fileopening" -> syscall_fileopening(m, i, name, udata)
      [] h = "syscall_filestat" -> syscall_filestat(m, i, name, udata)
      [] h = "syscall_readlink" -> syscall_readlink(m, i, name, udata)
      [] h = "syscall_mkdir" -> syscall_mkdir(m, i, name, udata)
      [] h = "syscall_symlink" -> syscall_symlink(m, i, name, udata)
      [] h = "syscall_chdir" -> syscall_chdir(m, i, name, udata)
      [] h = "syscall_execve_in" -> syscall_execve_in(m, i, name, udata)
      [] h = "syscall_execve_out" -> syscall_execve_out(m, i, name, udata)
      [] h = "syscall_forking" -> syscall_forking(m, i, name, udata)
      [] h = "syscall_socketcall" -> syscall_socketcall(m, i, name, udata)
      [] h = "syscall_accept" -> syscall_accept(m, i, name, udata)
      [] h = "syscall_connect" -> syscall_connect(m, i, name, udata)
      [] h = "syscall_xxx_at" -> syscall_xxx_at(m, i, name, udata)
      [] h = "syscall_unhandled_path1" -> syscall_unhandled_path1(m, i, name, udata)
      [] h = "syscall_unhandled_other" -> syscall_unhandled_other(m, i, name, udata)

(* ------------------------------------------------------------------ *)
(* syscall_handle()                                                    *)
(* ------------------------------------------------------------------ *)
\* the entry syscall_handle() resolves: kind "none" (entry == NULL), "entry"
\* (a table entry was read) or "oob" (the read was past the table's end)
ResolveIn(tables, m, i) ==
    LET process == m.procs[i]
        syscall == StripX32(process.current_syscall)
        tbl == tables[SyscallType(process)]
    IN IF syscall = 59 /\ process.in_syscall
       THEN IF MidExecve(m.procs, process.tgid, 59) # {}
            THEN [kind |-> "entry", e |-> tables[SYSCALL_X86_64].entries[59]]
            ELSE [kind |-> "none", e |-> NullEntry]
       ELSE IF syscall = 11 /\ process.in_syscall
       THEN IF MidExecve(m.procs, process.tgid, 11) # {}
            THEN [kind |-> "entry", e |-> tables[SYSCALL_I386].entries[11]]
            ELSE [kind |-> "none", e |-> NullEntry]
       \* entry == NULL && (syscall >= 0 || (size_t)syscall < tbl->length)
       ELSE IF syscall >= 0 \/ SizeLess(syscall, tbl.length)
       THEN IF syscall < tbl.length
            THEN [kind |-> "entry", e |-> tbl.entries[syscall]]
            ELSE [kind |-> "oob", e |-> NullEntry]
       ELSE [kind |-> "none", e |-> NullEntry]

ResolveEntry(m, i) == ResolveIn(syscall_tables, m, i)

\* "Run to next syscall": the flip, and the resume
RunToNextSyscall(m, i, tid) ==
    LET process == m.procs[i]
        m1 == IF process.in_syscall
              THEN [m EXCEPT !.procs[i].in_syscall = FALSE,
                             !.procs[i].current_syscall = -1,
                             !.procs[i].syscall_info = NullInfo]
              ELSE [m EXCEPT !.procs[i].in_syscall = TRUE]
    IN Ret(ptrace_syscall(m1, tid), 0)

\* the end of syscall_handle(): a handler that failed ends the call before
\* the flip and the resume
AfterHandler(m2, i, tid) ==
    IF m2.crashed THEN m2
    ELSE IF m2.ret # 0 THEN Ret(m2, -1)
    ELSE RunToNextSyscall(m2, i, tid)

\* syscall_handle() from the entry r it resolved: the handler of the entry
\* or of the exit, if the entry has one
HandleEntry(m0, r, i) ==
    LET process == m0.procs[i]
        tid == process.tid
        m1 == [m0 EXCEPT !.tread = r.kind, !.entry = r.e]
        entry == r.e
        h == IF ~process.in_syscall THEN entry.proc_entry ELSE entry.proc_exit
    IN IF r.kind = "oob" /\ m1.ub = "crash" THEN Crash(m1)
       ELSE IF r.kind = "oob" THEN RunToNextSyscall([m1 EXCEPT !.ubhit = TRUE], i, tid)
       ELSE IF r.kind = "none" THEN RunToNextSyscall(m1, i, tid)
       ELSE AfterHandler(IF h # "NULL"
                         THEN CallHandler(h, m1, i, entry.name, entry.udata)
                         ELSE Ret(m1, 0),
                         i, tid)

\* syscall_handle() after the range check
HandleChecked(m0, i) == HandleEntry(m0, ResolveEntry(m0, i), i)

syscall_handle(m, i) ==
    LET process == m.procs[i]
        syscall == StripX32(process.current_syscall)
    IN HandleChecked(IF syscall < 0 \/ syscall >= SanityCeiling
                     THEN Log(m, "log_error", process.tid, "INVALID SYSCALL", <<>>)
                     ELSE m,
                     i)


(* ------------------------------------------------------------------ *)
(* State                                                               *)
(* ------------------------------------------------------------------ *)
VARIABLES
    procs,      \* the registry: processes[0..processes_size-1]
    nextId,     \* the identifier the sink vends next
    verbosity,  \* trace_verbosity
    out,        \* the sink and log calls of the last dispatch, in order
    last,       \* the last stop: what was reported, what syscall_handle() did
    run,        \* "running", "failed" (a dispatch returned -1) or "crashed"
    hist,       \* per slot, what the kernel did for the task (history)
    left        \* the number of stops still to come

vars == <<procs, nextId, verbosity, out, last, run, hist, left>>

(* ------------------------------------------------------------------ *)
(* The stops the outer loop reports                                    *)
(* ------------------------------------------------------------------ *)
Params(a, b, c) ==
    [k \in 0..(PROCESS_ARGS - 1) |->
        IF k = 0 THEN a ELSE IF k = 1 THEN b ELSE IF k = 2 THEN c ELSE 10 + k]

\* a syscall as the tracee makes it: the ABI, the number, the six registers
Call(mode, nr, params) == [mode |-> mode, nr |-> nr, params |-> params]

\* the syscalls tasks of the fleet specification make: open("b"), chdir("b"),
\* clone(CLONE_THREAD), execve("/a")
FleetCalls ==
    { Call(MODE_X86_64, 2, Params(2, 1, 2)),
      Call(MODE_X86_64, 80, Params(2, 0, 0)),
      Call(MODE_X86_64, 56, Params(CLONE_THREAD, 0, 0)),
      Call(MODE_X86_64, 59, Params(1, 2, 1)) }

\* the syscalls of the fork specification: clone(CLONE_THREAD), clone(0),
\* fork(), vfork(), chdir("b")
ForkCalls ==
    { Call(MODE_X86_64, 56, Params(CLONE_THREAD, 0, 0)),
      Call(MODE_X86_64, 56, Params(0, 0, 0)),
      Call(MODE_X86_64, 57, Params(0, 0, 0)),
      Call(MODE_X86_64, 58, Params(0, 0, 0)),
      Call(MODE_X86_64, 80, Params(2, 0, 0)) }

\* register snapshots of the table specification
TableParams ==
    { Params(1, 2, 1), Params(2, 1, 2), Params(CLONE_THREAD, 0, 0),
      Params(AT_FDCWD, 2, 0), Params(AT_FDCWD, 5, 66),
      Params(1, AT_FDCWD, 2), Params(1, AT_FDCWD, 5),
      Params(3, 5, 1), Params(5, 1, 1),
      \* creat("b", 0644)
      Params(2, 420, 0),
      \* a path at an address the tracee has not mapped
      Params(7, 0, 0) }

\* the numbers a table lists
ListedIn(tbl) == {n \in 0..(tbl.length - 1) : tbl.entries[n].name # "NULL"}

Listed(type) == ListedIn(syscall_tables[type])

\* every syscall a table lists, an unlisted one, and the edges of the range
TableNumbers ==
    {<<MODE_I386, n>> : n \in Listed(SYSCALL_I386)}
    \cup {<<MODE_X86_64, n>> : n \in Listed(SYSCALL_X86_64)}
    \cup {<<MODE_X86_64, X32_SYSCALL_BIT + n>> : n \in {2, 257, 520, 521, 1999}}
    \cup {<<mode, nr>> : mode \in Modes, nr \in {-1, 0, 59, 11, 1999, SanityCeiling}}

TableCalls == {Call(c[1], c[2], params) : c \in TableNumbers, params \in TableParams}

\* the table entry of a syscall number under an ABI, NullEntry if the table
\* has none
EntryOf(mode, nr) ==
    LookupEntry(syscall_tables[SyscallType([mode |-> mode, current_syscall |-> nr])],
                StripX32(nr))

\* the handler the tables give a number on exit, "NULL" if none
ExitHandlerOf(mode, nr) == EntryOf(mode, nr).proc_exit

\* the return values an exit stop reports: an error, zero, a tid from the
\* fork family (that of a task the registry holds as running included, the
\* case syscall_forking() reports as an internal error), a positive number
\* from the others
RetVals(mode, nr) ==
    IF ExitHandlerOf(mode, nr) = "syscall_forking" THEN {-1, 0} \cup (1..MaxTid)
    ELSE {-1, 0, 1}

\* the registers of a task are written by the outer loop at its stops: the
\* arguments at the entry, the return value at the exit.  The model keeps a
\* task's registers from its entry to the stop after its exit
ClearRegs(ps, t) ==
    [j \in Slots |->
        IF j = t THEN ps[j]
        ELSE IF ps[j].in_syscall /\ ps[j].status = PROCESS_ATTACHED
        THEN [ps[j] EXCEPT !.retvalue = 0]
        ELSE [ps[j] EXCEPT !.mode = MODE_X86_64, !.params = ZeroParams,
                            !.retvalue = 0]]

\* the outer loop on a syscall stop of slot t: it fills in the registers and
\* the syscall number, and calls syscall_handle()
DispatchUnder(verb, t, mode, nr, params, retvalue, failAt, isdir, ub) ==
    LET ps == [ClearRegs(procs, t) EXCEPT ![t].mode = mode,
                                          ![t].current_syscall = nr,
                                          ![t].params = params,
                                          ![t].retvalue = retvalue]
    IN syscall_handle(Machine(ps, nextId, verb, failAt, isdir, ub), t)

Dispatch(t, mode, nr, params, retvalue, failAt, isdir, ub) ==
    DispatchUnder(verbosity, t, mode, nr, params, retvalue, failAt, isdir, ub)

\* the structured events of a sequence of sink and log calls
Events(o) == SelectSeq(o, LAMBDA e : e.op \in SinkOps)

(* ------------------------------------------------------------------ *)
(* History: what the kernel did, kept apart from what the tracer noted *)
(* ------------------------------------------------------------------ *)
\* a slot without a task, or a task that no traced fork created
NoHist == [order |-> "none", parent |-> 0, wd |-> NULL, tgid |-> 0,
           adds |-> <<>>, chdir |-> NULL]

\* clone() with CLONE_THREAD
IsThreadClone(mode, nr, params) ==
    EntryOf(mode, nr).name = "clone" /\ HasBit(params[0], CLONE_THREAD)

\* the path a tracee's argument names, given the directory the task is in
Resolved(wd, ptr) ==
    IF IsAbsolute(TraceeMem(ptr)) THEN TraceeMem(ptr) ELSE abspath(wd, TraceeMem(ptr))

\* the add_process calls of a dispatch, as <<parent, identifier vended>>
Adds(o) ==
    LET a == SelectSeq(o, LAMBDA e : e.op = "add_process")
    IN [k \in 1..Len(a) |-> [parent |-> a[k].id, id |-> a[k].n]]

\* the history after a stop of slot t whose dispatch gave r: a fork exit
\* returning the tid of slot j notes the parent as it was at that exit, and
\* whether the child's own first stop had come before ("a") or not ("b"); a
\* successful chdir exit notes where the task went
NextHist(r, kind, t, mode, nr, retvalue) ==
    LET params == procs[t].params
        forked == kind = "exit" /\ retvalue > 0
                  /\ ExitHandlerOf(mode, nr) = "syscall_forking"
        moved == kind = "exit" /\ retvalue >= 0
                 /\ ExitHandlerOf(mode, nr) = "syscall_chdir"
    IN [j \in Slots |->
          IF r.procs[j].status = PROCESS_FREE THEN NoHist
          ELSE IF forked /\ r.procs[j].tid = retvalue
                  /\ procs[j].status \in {PROCESS_FREE, PROCESS_UNKNOWN}
          THEN [order |-> IF procs[j].status = PROCESS_UNKNOWN THEN "a" ELSE "b",
                parent |-> procs[t].identifier,
                wd |-> procs[t].wd,
                tgid |-> IF IsThreadClone(mode, nr, params) THEN procs[t].tgid
                         ELSE retvalue,
                adds |-> hist[j].adds \o Adds(r.out),
                chdir |-> NULL]
          ELSE IF moved /\ j = t
          THEN [hist[j] EXCEPT !.chdir = Resolved(procs[t].wd, params[0])]
          ELSE hist[j]]

Commit(r, kind, t, call, mode, nr, retvalue, failAt) ==
    /\ left > 0
    /\ left' = left - 1
    /\ procs' = r.procs
    /\ nextId' = r.nextId
    /\ out' = r.out
    /\ last' = [kind |-> kind, slot |-> t, call |-> call, mode |-> mode, nr |-> nr,
                retvalue |-> retvalue, ret |-> r.ret, resumed |-> r.resumed,
                resumedAt |-> r.resumedAt,
                tread |-> r.tread, entry |-> r.entry, ub |-> r.ubhit,
                sinkfail |-> failAt]
    /\ run' = IF r.crashed THEN "crashed" ELSE IF r.ret # 0 THEN "failed" ELSE "running"
    /\ hist' = NextHist(r, kind, t, mode, nr, retvalue)
    /\ UNCHANGED verbosity

\* what undefined behaviour may do, where a dispatch runs into it
UBChoices == {"crash", "benign"}

\* the most sink calls one dispatch makes (add_exit, add_exec,
\* add_files_from_proc)
MaxSinkCalls == 3

\* what path_is_dir() may answer: the handlers of the open and stat families
\* ask it, directly or behind the *at dispatcher
DirAnswers(mode, nr) ==
    IF ExitHandlerOf(mode, nr) \in {"syscall_fileopening", "syscall_filestat",
                                    "syscall_xxx_at"}
    THEN BOOLEAN ELSE {FALSE}

\* a syscall-entry stop of slot t
EntryStop(t, calls) ==
    /\ run = "running"
    /\ procs[t].status = PROCESS_ATTACHED
    /\ ~procs[t].in_syscall
    /\ \E c \in calls, ub \in UBChoices :
         \E r \in {Dispatch(t, c.mode, c.nr, c.params, 0, 0, FALSE, ub)} :
            /\ ub = "crash" => r.ubhit
            /\ Commit(r, "entry", t, <<c.mode, c.nr>>, c.mode, c.nr, 0, 0)

\* what the exit stop of an execve may report: execve's number in one of the
\* ABIs, under the ABI of the old or of the new image
ExecveReports(modes, numbers) == {<<mode, nr>> : mode \in modes, nr \in numbers}

ExecveNumbers == {59, 11, X32_SYSCALL_BIT + 520}

\* some task of t's thread group is inside an execve
InExecve(t) ==
    \E c \in Slots : /\ procs[c].status = PROCESS_ATTACHED
                     /\ procs[c].tgid = procs[t].tgid
                     /\ procs[c].in_syscall
                     /\ ~procs[c].syscall_info.isnull

\* a syscall-exit stop of slot t that reports one of reports (ABI, number)
ExitStopOf(t, reports) ==
    /\ run = "running"
    /\ procs[t].status = PROCESS_ATTACHED
    /\ procs[t].in_syscall
    /\ \E rep \in reports :
         \E retvalue \in RetVals(rep[1], rep[2]), isdir \in DirAnswers(rep[1], rep[2]),
            failAt \in 0..MaxSinkCalls, ub \in UBChoices :
           \E r \in {Dispatch(t, rep[1], rep[2], procs[t].params, retvalue, failAt,
                               isdir, ub)} :
              \* the sink call that fails is one the dispatch makes, and the
              \* undefined behaviour one it runs into
              /\ failAt <= r.calls
              /\ ub = "crash" => r.ubhit
              \* the registry of the model does not grow
              /\ (trace_get_empty_process(procs) = 0
                     => Cardinality({j \in Slots : r.procs[j].status # PROCESS_FREE})
                        <= Cardinality({j \in Slots : procs[j].status # PROCESS_FREE}))
              /\ Commit(r, "exit", t, <<procs[t].mode, procs[t].current_syscall>>,
                        rep[1], rep[2], retvalue, failAt)

\* a syscall-exit stop of slot t: it reports the number and ABI of the entry,
\* or, while an execve is going on in the thread group, one of execs
ExitStop(t, execs) ==
    ExitStopOf(t, {<<procs[t].mode, procs[t].current_syscall>>}
                     \cup (IF InExecve(t) THEN execs ELSE {}))

\* tracer.c trace(): the first stop of a task.  An unknown tid (the child of
\* a fork some task is in) gets a slot with status UNKNOWN and stays stopped;
\* one the fork exit has ALLOCATED becomes ATTACHED and is resumed
NewTaskStop(tid) ==
    /\ run = "running"
    /\ left > 0
    /\ left' = left - 1
    /\ LET known == trace_find_process(procs, tid)
           j == trace_get_empty_process(procs)
       IN \/ /\ known = 0
             /\ j # 0
             /\ \E p \in Slots :
                  /\ procs[p].status = PROCESS_ATTACHED
                  /\ procs[p].in_syscall
                  /\ ExitHandlerOf(procs[p].mode, procs[p].current_syscall)
                        = "syscall_forking"
             /\ procs' = [procs EXCEPT ![j].status = PROCESS_UNKNOWN,
                                       ![j].tid = tid,
                                       ![j].in_syscall = FALSE]
             /\ last' = [kind |-> "newtask", slot |-> j, call |-> <<MODE_X86_64, -1>>,
                         mode |-> MODE_X86_64,
                         nr |-> -1, retvalue |-> 0, ret |-> 0, resumed |-> <<>>,
                         resumedAt |-> <<>>, tread |-> "none", entry |-> NullEntry,
                         ub |-> FALSE, sinkfail |-> 0]
          \/ /\ known # 0
             /\ procs[known].status = PROCESS_ALLOCATED
             /\ procs' = [procs EXCEPT ![known].status = PROCESS_ATTACHED]
             /\ last' = [kind |-> "newtask", slot |-> known, call |-> <<MODE_X86_64, -1>>,
                         mode |-> MODE_X86_64,
                         nr |-> -1, retvalue |-> 0, ret |-> 0, resumed |-> <<tid>>,
                         resumedAt |-> <<0>>, tread |-> "none", entry |-> NullEntry,
                         ub |-> FALSE, sinkfail |-> 0]
    /\ out' = <<>>
    /\ UNCHANGED <<nextId, verbosity, run, hist>>

(* ------------------------------------------------------------------ *)
(* The specifications                                                  *)
(* ------------------------------------------------------------------ *)
\* an attached task between two syscalls
Attached(tid, tgid, wd, id) ==
    [FreeProcess EXCEPT !.status = PROCESS_ATTACHED, !.tid = tid, !.tgid = tgid,
                        !.wd = wd, !.identifier = id]

InitLast == [kind |-> "init", slot |-> 1, call |-> <<MODE_X86_64, -1>>,
             mode |-> MODE_X86_64, nr |-> -1,
             retvalue |-> 0, ret |-> 0, resumed |-> <<>>, resumedAt |-> <<>>,
             tread |-> "none", entry |-> NullEntry, ub |-> FALSE, sinkfail |-> 0]

\* the fleets the stops start from: the first traced process in wd, alone or
\* with the threads it has started there (threads 2.. of thread group 1,
\* registered with the sink in that order), which have since gone to "/a"
InitFleet(nthreads, wd) ==
    [j \in Slots |-> IF j = 1 THEN Attached(1, 1, wd, 1)
                     ELSE IF j <= 1 + nthreads THEN Attached(j, 1, <<Slash, "a">>, j)
                     ELSE FreeProcess]

InitHist(nthreads, wd) ==
    [j \in Slots |-> IF 1 < j /\ j <= 1 + nthreads
                     THEN [order |-> "b", parent |-> 1, wd |-> wd, tgid |-> 1,
                           adds |-> <<[parent |-> 1, id |-> j]>>,
                           chdir |-> <<Slash, "a">>]
                     ELSE NoHist]

InitWith(nthreads, wds, verbs, n) ==
    /\ \E k \in nthreads, wd \in wds :
         /\ procs = InitFleet(k, wd)
         /\ nextId = k + 2
         /\ hist = InitHist(k, wd)
    /\ verbosity \in verbs
    /\ out = <<>>
    /\ last = InitLast
    /\ run = "running"
    /\ left = n

Init == InitWith(0..2, {<<Slash>>}, {1}, MaxSteps)

FleetEntry == \E t \in Slots : EntryStop(t, FleetCalls)
FleetExit == \E t \in Slots : ExitStop(t, ExecveReports({MODE_X86_64}, {59, 11}))
FleetNewTask == \E tid \in Tids : NewTaskStop(tid)

Next == FleetEntry \/ FleetExit \/ FleetNewTask

\* the fleet: several tasks, the syscalls that tie them together
Spec == Init /\ [][Next]_vars

InitFork == InitWith({0}, {<<Slash>>, <<Slash, "a">>}, {1}, MaxForkSteps)

ForkEntry == \E t \in Slots : EntryStop(t, ForkCalls)
ForkExit == \E t \in Slots : ExitStop(t, {})
ForkNewTask == \E tid \in Tids : NewTaskStop(tid)

NextFork == ForkEntry \/ ForkExit \/ ForkNewTask

\* one process forks: no task execs, so no exit reports an execve
SpecFork == InitFork /\ [][NextFork]_vars

InitTable == InitWith({0}, {<<Slash>>, <<Slash, "a">>}, {0, 1}, MaxSteps)

TableEntry == last.kind = "init" /\ EntryStop(1, TableCalls)
TableExit == ExitStop(1, ExecveReports(Modes, ExecveNumbers))

NextTable == TableEntry \/ TableExit

\* one task makes one syscall: every syscall of the tables, entry then exit
SpecTable == InitTable /\ [][NextTable]_vars

\* the syscalls of the stray-exit specification: execve("/a") by its x86-64
\* and by its x32 number, chdir("b")
StrayCalls ==
    { Call(MODE_X86_64, 59, Params(1, 2, 1)),
      Call(MODE_X86_64, X32_SYSCALL_BIT + 520, Params(1, 2, 1)),
      Call(MODE_X86_64, 80, Params(2, 0, 0)) }

InitStray == InitWith({0, 1}, {<<Slash>>}, {1}, MaxSteps)

StrayEntry == \E t \in Slots : EntryStop(t, StrayCalls)
\* an exit stop reports the syscall of the entry or, at any time, an execve
StrayExit ==
    \E t \in Slots :
       ExitStopOf(t, {<<procs[t].mode, procs[t].current_syscall>>}
                        \cup ExecveReports({MODE_X86_64}, ExecveNumbers))

NextStray == StrayEntry \/ StrayExit

\* a process and its thread, and exit stops that report an execve no task of
\* the registry is known to have entered
SpecStray == InitStray /\ [][NextStray]_vars

(* ------------------------------------------------------------------ *)
(* Properties                                                          *)
(* ------------------------------------------------------------------ *)
\* the stop just taken was a call of syscall_handle() on slot t
Dispatched(t) == last'.kind \in {"entry", "exit"} /\ last'.slot = t

\* C1: every call of syscall_handle() that returns, whatever the handler and
\* the sink answered, flips the task's in_syscall exactly once
C1_FlipOncePerDispatch ==
    [][\A t \in Slots :
          (Dispatched(t) /\ run' # "crashed")
             => procs'[t].in_syscall # procs[t].in_syscall]_vars

\* an exit dispatch failed on a sink call and left the task in its syscall,
\* not resumed
C1_FailedExitKeepsFlag ==
    /\ last.kind = "exit" /\ last.sinkfail > 0 /\ run = "failed"
    /\ procs[last.slot].in_syscall
    /\ last.resumed = <<>>

\* C2: an exit dispatch with retvalue < 0 (and no undefined behaviour in it)
\* emits no structured event, whichever exit handler runs, the execve one on
\* another task than the caller's included
C2_NoEventOnFailedExit ==
    [][(last'.kind = "exit" /\ last'.retvalue < 0 /\ ~last'.ub)
          => Events(out') = <<>>]_vars

\* a failed execve exit observed on the leader has emitted the add_exit of
\* the thread that entered execve, and freed it
C2_ExitEventOnFailedExecve ==
    /\ last.kind = "exit" /\ last.nr = 59 /\ last.retvalue < 0 /\ ~last.ub
    /\ procs[last.slot].tid = procs[last.slot].tgid
    /\ Len(Events(out)) = 1
    /\ Events(out)[1].op = "add_exit"
    /\ Events(out)[1].id # procs[last.slot].identifier

\* a successful execve exit reaches leader t, which holds no scratch, while
\* thread c of its group is in the execve it entered
SwapCase(c, t) ==
    /\ Dispatched(t) /\ last'.kind = "exit"
    /\ last'.nr = 59 /\ last'.retvalue >= 0
    /\ procs[t].tid = procs[t].tgid
    /\ procs[t].syscall_info.isnull
    /\ c # t
    /\ procs[c].tid # procs[c].tgid
    /\ c \in MidExecve(procs, procs[t].tgid, 59)

\* the three events in order, c freed, t's status kept, no scratch left
SwapDone(c, t) ==
    LET info == procs[c].syscall_info
    IN /\ Events(out') =
            << Ev("add_exit", procs[c].identifier, <<>>, 0, FALSE, <<>>, <<>>, ""),
               Ev("add_exec", procs[t].identifier, info.binary, 0, FALSE,
                  <<info.argv, info.envp>>, procs[t].wd, ""),
               Ev("add_files_from_proc", procs[t].identifier, info.binary,
                  procs[t].tid, FALSE, <<>>, <<>>, "") >>
       /\ procs'[c].status = PROCESS_FREE
       /\ procs'[t].status = procs[t].status
       /\ procs'[c].syscall_info.isnull
       /\ procs'[t].syscall_info.isnull

Core(p) ==
    [status |-> p.status, tid |-> p.tid, tgid |-> p.tgid, wd |-> p.wd,
     in_syscall |-> p.in_syscall, current_syscall |-> p.current_syscall,
     identifier |-> p.identifier, syscall_info |-> p.syscall_info]

\* the exit of a fork, vfork or clone has just been dispatched on slot t
ForkExited(t) ==
    /\ Dispatched(t) /\ last'.kind = "exit" /\ ~last'.ub
    /\ ExitHandlerOf(last'.mode, last'.nr) = "syscall_forking"

\* the child of a fork is complete in slot j: its parent's exit came after its
\* own first stop (order a), or its first stop came after the exit (order b)
ForkDone(j) ==
    \/ /\ last.kind = "exit" /\ last.ret = 0 /\ ~last.ub
       /\ ExitHandlerOf(last.mode, last.nr) = "syscall_forking"
       /\ procs[j].status # PROCESS_FREE
       /\ last.retvalue = procs[j].tid
       /\ hist[j].order = "a"
    \/ /\ last.kind = "newtask" /\ last.slot = j
       /\ hist[j].order = "b"

\* C4: whichever of the parent's fork exit and the child's first stop comes
\* first, the child ends ATTACHED, with the tgid the fork calls for, the wd
\* the parent had at the fork exit, and one add_process, the parent's
C4_BothOrdersSameChild ==
    \A j \in Slots :
       ForkDone(j) =>
          /\ procs[j].status = PROCESS_ATTACHED
          /\ procs[j].tgid = hist[j].tgid
          /\ procs[j].wd = hist[j].wd
          /\ hist[j].adds = <<[parent |-> hist[j].parent,
                               id |-> procs[j].identifier]>>

\* one run has seen both orders: a child completed in order a, and the first
\* stop of another, forked before it, has now come
C4_BothOrdersSeen ==
    \E j, k \in Slots :
       /\ j # k
       /\ hist[j].order = "a" /\ procs[j].status = PROCESS_ATTACHED
       /\ hist[k].order = "b" /\ ForkDone(k)

\* C5: a fork exit returning a tid the registry does not hold adds one task,
\* ALLOCATED, not in a syscall, with the parent's wd, and the parent's tgid
\* exactly for clone(CLONE_THREAD); one add_process(parent, wd) is emitted and
\* what it vends is the task's identifier.  A return <= 0 changes no task and
\* emits nothing
C5_FreshChild ==
    [][\A t \in Slots :
          /\ (/\ ForkExited(t) /\ last'.retvalue > 0
              /\ \A k \in Slots : procs[k].status = PROCESS_FREE
                                  \/ procs[k].tid # last'.retvalue)
               => /\ \E j \in Slots :
                       /\ procs[j].status = PROCESS_FREE
                       /\ procs'[j].status = PROCESS_ALLOCATED
                       /\ procs'[j].tid = last'.retvalue
                       /\ ~procs'[j].in_syscall
                       /\ procs'[j].wd = procs[t].wd
                       /\ procs'[j].tgid =
                             IF IsThreadClone(last'.mode, last'.nr, procs[t].params)
                             THEN procs[t].tgid ELSE last'.retvalue
                       /\ last'.sinkfail = 0 => procs'[j].identifier = nextId
                       /\ \A k \in Slots \ {j, t} : Core(procs'[k]) = Core(procs[k])
                  /\ Events(out') =
                       << Ev("add_process", procs[t].identifier, <<>>, nextId, FALSE,
                             <<>>, procs[t].wd, "") >>
          /\ (ForkExited(t) /\ last'.retvalue <= 0)
               => /\ \A k \in Slots \ {t} : Core(procs'[k]) = Core(procs[k])
                  /\ procs'[t].status = procs[t].status
                  /\ procs'[t].wd = procs[t].wd
                  /\ Events(out') = <<>>]_vars

\* a process has made a thread and then a process: the second child has just
\* been ALLOCATED in a group of its own, the first is in its parent's
C5_ThreadAndProcess ==
    \E j, k \in Slots :
       /\ procs[j].status = PROCESS_ALLOCATED /\ procs[j].tgid = procs[j].tid
       /\ procs[k].status \in {PROCESS_ALLOCATED, PROCESS_ATTACHED}
       /\ procs[k].tgid # procs[k].tid
       /\ hist[k].order = "b"
       /\ last.kind = "exit" /\ last.retvalue = procs[j].tid

\* the exit of a chdir has just been dispatched on slot t
ChdirExited(t) ==
    /\ Dispatched(t) /\ last'.kind = "exit" /\ ~last'.ub
    /\ ExitHandlerOf(last'.mode, last'.nr) = "syscall_chdir"

\* the exit of an open() with a relative path has just been dispatched on
\* slot t, which has changed directory before
RelativeOpenExited(t) ==
    /\ Dispatched(t) /\ last'.kind = "exit" /\ ~last'.ub
    /\ EntryOf(last'.mode, last'.nr).name = "open"
    /\ last'.retvalue >= 0
    /\ ~IsAbsolute(TraceeMem(procs[t].params[0]))
    /\ hist[t].chdir # NULL

\* C6: a successful chdir exit sets the task's wd to the resolved argument and
\* emits add_file_open(that path, FILE_WDIR, is_dir); a failed one changes
\* nothing and emits nothing; a later relative path of the task is resolved
\* against the directory of its last successful chdir
C6_ChdirThenRelative ==
    [][\A t \in Slots :
          /\ (ChdirExited(t) /\ last'.retvalue >= 0)
               => /\ procs'[t].wd = Resolved(procs[t].wd, procs[t].params[0])
                  /\ Events(out') =
                       << Ev("add_file_open", procs[t].identifier, procs'[t].wd,
                             FILE_WDIR, TRUE, <<>>, <<>>, "") >>
          /\ (ChdirExited(t) /\ last'.retvalue < 0)
               => /\ procs'[t].wd = procs[t].wd
                  /\ Events(out') = <<>>
          /\ RelativeOpenExited(t)
               => /\ Len(Events(out')) = 1
                  /\ Events(out')[1].op = "add_file_open"
                  /\ Events(out')[1].path
                        = abspath(hist[t].chdir, TraceeMem(procs[t].params[0]))]_vars

\* the first process went from "/" to "/b" and then opened "b": "/b/b"
C6_OpenAfterChdir ==
    /\ last.kind = "exit" /\ last.slot = 1 /\ last.nr = 2
    /\ hist[1].chdir = <<Slash, "b">>
    /\ Len(Events(out)) = 1
    /\ Events(out)[1].path = <<Slash, "b", Slash, "b">>

\* a working directory a task can use
ValidWd(wd) == wd # NULL /\ wd # FREED /\ IsAbsolute(wd)

\* C7: every task the dispatches have made or handle (ALLOCATED, ATTACHED)
\* has a non-null absolute wd, and every add_file_open carries an absolute
\* path
C7_AbsoluteWdAndPaths ==
    /\ \A j \in Slots :
          procs[j].status \in {PROCESS_ALLOCATED, PROCESS_ATTACHED}
             => ValidWd(procs[j].wd)
    /\ \A k \in 1..Len(out) :
          out[k].op = "add_file_open" => IsAbsolute(out[k].path)

\* a task forked after its parent's relative chdir holds the resolved wd
C7_ChildOfMovedParent ==
    \E j \in Slots :
       /\ procs[j].status = PROCESS_ALLOCATED
       /\ hist[j].order = "b"
       /\ procs[j].wd = <<Slash, "b">>
       /\ last.kind = "exit" /\ last.retvalue = procs[j].tid

\* the argument that holds the path of a path-taking syscall, -1 for others
PathArgOf(name) ==
    IF name \in {"open", "creat", "access", "stat", "lstat", "stat64", "lstat64",
                 "oldstat", "oldlstat", "readlink", "mkdir", "chdir", "execve"}
    THEN 0
    ELSE IF name \in {"symlink", "openat", "mkdirat", "faccessat", "readlinkat",
                      "newfstatat", "fstatat64"}
    THEN 1
    ELSE IF name = "symlinkat" THEN 2
    ELSE -1

\* the events that carry a path
PathOps == {"add_file_open", "add_exec", "add_files_from_proc"}

\* C8: when the path a path-taking syscall was given begins with '/', every
\* event of its exit carries that path unchanged, whatever the task's wd
C8_AbsolutePathVerbatim ==
    \A t \in Slots :
       LET arg == PathArgOf(EntryOf(last.call[1], last.call[2]).name)
       IN (/\ last.kind = "exit" /\ last.slot = t /\ ~last.ub
           /\ arg >= 0
           /\ IsAbsolute(TraceeMem(procs[t].params[arg])))
            => \A k \in 1..Len(out) :
                  out[k].op \in PathOps
                     => out[k].path = TraceeMem(procs[t].params[arg])

\* a task in "/a" has left openat(AT_FDCWD, "/b/../a"): the event carries
\* "/b/../a"
C8_UnnormalisedPathEmitted ==
    /\ last.kind = "exit" /\ ~last.ub
    /\ EntryOf(last.call[1], last.call[2]).name = "openat"
    /\ procs[last.slot].wd = <<Slash, "a">>
    /\ Len(Events(out)) = 1
    /\ Events(out)[1].path = <<Slash, "b", Slash, ".", ".", Slash, "a">>

\* the syscall a *at syscall stands for when its directory is AT_FDCWD
PlainOf(name) ==
    CASE name = "openat" -> "open"
      [] name = "mkdirat" -> "mkdir"
      [] name = "faccessat" -> "access"
      [] name = "readlinkat" -> "readlink"
      [] name = "newfstatat" -> "stat"
      [] name = "fstatat64" -> "stat64"
      [] OTHER -> "NULL"

\* the number an ABI table lists a name under (with the x32 bit of nr)
NumberOf(mode, nr, name) ==
    LET type == SyscallType([mode |-> mode, current_syscall |-> nr])
        n == CHOOSE k \in Listed(type) : syscall_tables[type].entries[k].name = name
    IN IF HasBit(nr, X32_SYSCALL_BIT) THEN X32_SYSCALL_BIT + n ELSE n

\* the registers one place to the left
ShiftedLeft(params) ==
    [k \in 0..(PROCESS_ARGS - 1) |->
        IF k + 1 <= PROCESS_ARGS - 1 THEN params[k + 1] ELSE params[k]]

\* C9: for a task inside openat, mkdirat, faccessat, readlinkat, newfstatat
\* or fstatat64 with AT_FDCWD, whatever the exit returns and the environment
\* answers, the exit emits the events the plain syscall of the same table
\* emits for the arguments shifted left by one
C9_AtLikePlain ==
    \A t \in Slots :
       LET p == procs[t]
           name == EntryOf(p.mode, p.current_syscall).name
       IN (/\ p.status = PROCESS_ATTACHED /\ p.in_syscall
           /\ PlainOf(name) # "NULL"
           /\ p.params[0] = AT_FDCWD)
            => \A retvalue \in {-1, 0, 1}, isdir \in BOOLEAN, failAt \in {0, 1} :
                  LET at == Dispatch(t, p.mode, p.current_syscall, p.params,
                                     retvalue, failAt, isdir, "benign")
                      plain == Dispatch(t, p.mode,
                                        NumberOf(p.mode, p.current_syscall, PlainOf(name)),
                                        ShiftedLeft(p.params),
                                        retvalue, failAt, isdir, "benign")
                  IN Events(at.out) = Events(plain.out) /\ at.ret = plain.ret

\* X86_64 openat(AT_FDCWD, "b", O_RDONLY) in "/a" has emitted open's event
C9_OpenatEmitted ==
    /\ last.kind = "exit" /\ last.call = <<MODE_X86_64, 257>> /\ last.nr = 257
    /\ procs[last.slot].params[0] = AT_FDCWD
    /\ Events(out) = << Ev("add_file_open", procs[last.slot].identifier,
                           <<Slash, "a", Slash, "b">>, FILE_READ, FALSE,
                           <<>>, <<>>, "") >>

\* C10: a stripped index below zero or at or above the ceiling is logged,
\* reads no table entry, runs no handler, emits no event, and the task is
\* resumed
C10_OutOfRangeSkipped ==
    (/\ last.kind \in {"entry", "exit"}
     /\ (StripX32(last.nr) < 0 \/ StripX32(last.nr) >= SanityCeiling))
       => /\ \E k \in 1..Len(out) : out[k].op = "log_error"
          /\ last.tread = "none"
          /\ Events(out) = <<>>
          /\ run = "running"
          /\ last.resumed = <<procs[last.slot].tid>>

\* index 2000 was logged and then read from the table, past its end
C10_CeilingReadPastTable ==
    /\ last.kind = "entry" /\ last.nr = SanityCeiling
    /\ \E k \in 1..Len(out) : out[k].op = "log_error"
    /\ last.tread = "oob"

\* C11: for a stripped index in {-1} \cup 0..1999, under every ABI, no table
\* entry is read outside the table; an index at or past the table's length,
\* or one the table does not list, runs no handler, emits nothing, and the
\* task is resumed
C11_InRangeReadsInsideTable ==
    (/\ last.kind \in {"entry", "exit"}
     /\ StripX32(last.nr) >= -1 /\ StripX32(last.nr) < SanityCeiling)
       => /\ last.tread # "oob"
          /\ EntryOf(last.mode, last.nr).name = "NULL"
               => /\ Events(out) = <<>>
                  /\ run = "running"
                  /\ last.resumed = <<procs[last.slot].tid>>

\* index 1999, below the ceiling and past the end of the table, was read
\* from the table without any log
C11_ReadPastTableBelowCeiling ==
    /\ last.kind = "entry" /\ last.nr = SanityCeiling - 1
    /\ out = <<>>
    /\ last.tread = "oob"

\* the argument that holds the directory descriptor of an *at syscall
DirFdOf(name) ==
    IF name = "symlinkat" THEN 1 ELSE IF PlainOf(name) # "NULL" THEN 0 ELSE -1

\* the last stop was the successful exit of the *at syscall called name,
\* made with a directory descriptor other than AT_FDCWD
NonCwdAtExit(name) ==
    /\ last.kind = "exit" /\ last.retvalue >= 0
    /\ last.call = <<last.mode, last.nr>>
    /\ EntryOf(last.mode, last.nr).name = name
    /\ DirFdOf(name) >= 0
    /\ procs[last.slot].params[DirFdOf(name)] # AT_FDCWD

AtNames == {"symlinkat", "openat", "mkdirat", "faccessat", "readlinkat",
            "newfstatat", "fstatat64"}

CreatExited ==
    /\ last.kind = "exit" /\ last.retvalue > 0 /\ last.sinkfail = 0
    /\ last.call = <<last.mode, last.nr>>
    /\ EntryOf(last.mode, last.nr).name = "creat"
    /\ procs[last.slot].params[0] = 2
    /\ procs[last.slot].params[1] = 420

\* "b" under the working directory wd
UnderWd(wd) == IF wd = <<Slash>> THEN <<Slash, "b">> ELSE wd \o <<Slash, "b">>

\* the one add_file_open of the creat exit, with the mode given
CreatEvent(mode) ==
    /\ Len(Events(out)) = 1
    /\ Events(out)[1].op = "add_file_open"
    /\ Events(out)[1].id = procs[last.slot].identifier
    /\ Events(out)[1].path = UnderWd(procs[last.slot].wd)
    /\ Events(out)[1].n = mode

\* C13 as stated: the creat exit emits exactly one add_file_open with the
\* path under the wd and mode FILE_READ|FILE_WRITE
C13_CreatReadWrite == CreatExited => CreatEvent(FILE_READ + FILE_WRITE)

\* C13, amended: the creat exit emits exactly one add_file_open with the path
\* under the wd and mode FILE_WRITE: 0644 | O_CREAT|O_WRONLY|O_TRUNC has access
\* mode O_WRONLY
C13_CreatWriteOnly == CreatExited => CreatEvent(FILE_WRITE)

\* creat("b", 0644) in "/a" returned a descriptor for a file that is no
\* directory, and its event is out
C13_CreatEmitted ==
    /\ CreatExited
    /\ procs[last.slot].wd = <<Slash, "a">>
    /\ Len(Events(out)) = 1
    /\ ~Events(out)[1].dir

\* the exit stops task t may be at: its own syscall or, while an execve goes
\* on in its thread group, the execve of either ABI
ExitReports(t) ==
    {<<procs[t].mode, procs[t].current_syscall>>}
       \cup (IF InExecve(t) THEN ExecveReports({MODE_X86_64}, {59, 11}) ELSE {})

\* the tasks that are inside a syscall
InSyscall == {t \in Slots : procs[t].status = PROCESS_ATTACHED /\ procs[t].in_syscall}

\* the verbosities two runs of the tracer are compared under
Verbosities == {0, 2}

Exits(o) == SelectSeq(o, LAMBDA e : e.op = "add_exit")

\* C15: the execve exit handler emits add_exit at most once in a dispatch,
\* only on a successful execve, and only for another task than the one the
\* exit is delivered on, which was attached and is freed by the dispatch (so
\* that no later dispatch can emit it again): never for a task that stays alive
C15_ExitOnlyForVanishedTask ==
    [][Exits(out') # <<>>
         => /\ Len(Exits(out')) = 1
            /\ last'.kind = "exit" /\ last'.retvalue >= 0
            /\ \E c \in Slots :
                  /\ c # last'.slot
                  /\ procs[c].identifier = Exits(out')[1].id
                  /\ procs[c].status = PROCESS_ATTACHED
                  /\ last'.sinkfail = 0 => procs'[c].status = PROCESS_FREE]_vars

\* an execve has failed, all tasks live on, and the task that had entered it
\* was reported as exited and lost its slot
C15_ExitForLivingThread ==
    /\ last.kind = "exit" /\ last.retvalue < 0 /\ ~last.ub /\ last.sinkfail = 0
    /\ \E c \in Slots :
          /\ c # last.slot
          /\ procs[c].status = PROCESS_FREE /\ procs[c].wd = FREED
          /\ Exits(out) = <<Ev("add_exit", procs[c].identifier, <<>>, 0, FALSE,
                               <<>>, <<>>, "")>>

\* the dispatch on slot t made a sink call that returned non-zero
SinkFailed(t) ==
    /\ Dispatched(t)
    /\ last'.sinkfail > 0
    /\ Len(Events(out')) >= last'.sinkfail

\* C16 as stated: syscall_handle() returns failure when a sink call of the
\* handler returned non-zero, through the *at dispatcher too, and success in
\* every other case
C16_FailureIffSinkFailed ==
    [][\A t \in Slots :
          (Dispatched(t) /\ run' # "crashed")
             => (last'.ret # 0 <=> SinkFailed(t))]_vars

\* a fork exit that returns the tid of a task the registry holds with a
\* status other than UNKNOWN
AlreadyRunning(t) ==
    /\ Dispatched(t) /\ last'.kind = "exit" /\ last'.retvalue > 0
    /\ EntryOf(last'.mode, last'.nr).proc_exit = "syscall_forking"
    /\ \E j \in Slots : /\ procs[j].tid = last'.retvalue
                        /\ procs[j].status \in {PROCESS_ALLOCATED, PROCESS_ATTACHED}

\* C16, amended: syscall_handle() returns -1 when a sink call of the handler
\* returned non-zero, through the *at dispatcher too, and when a fork exit
\* returns the tid of a task already running; it returns 0 in every other case
C16_FailureIffSinkFailedOrRunning ==
    [][\A t \in Slots :
          (Dispatched(t) /\ run' # "crashed")
             => /\ last'.ret \in {0, -1}
                /\ last'.ret # 0 <=> (SinkFailed(t) \/ AlreadyRunning(t))]_vars

\* the sink refused the add_file_open of an openat(AT_FDCWD, ...) exit, and
\* the dispatch returned failure
C16_OpenatSinkFailure ==
    /\ last.kind = "exit" /\ last.sinkfail = 1 /\ last.ret = -1
    /\ EntryOf(last.mode, last.nr).proc_exit = "syscall_xxx_at"
    /\ Len(Events(out)) = 1 /\ Events(out)[1].op = "add_file_open"
    /\ run = "failed"

\* the last stop ran a handler that reads its path argument 0 from the
\* tracee, and the address is one the tracee has not mapped
PathReadFailed ==
    /\ last.kind \in {"entry", "exit"}
    /\ last.call = <<last.mode, last.nr>>
    /\ PathArgOf(EntryOf(last.mode, last.nr).name) = 0
    /\ IF last.kind = "entry"
       THEN EntryOf(last.mode, last.nr).proc_entry # "NULL"
       ELSE EntryOf(last.mode, last.nr).proc_exit \notin {"NULL", "syscall_execve_out"}
    /\ tracee_strdup(procs[last.slot].tid, procs[last.slot].params[0]) = NULL

\* C17: when the read of a path from the tracee fails, the handler emits no
\* sink event and the dispatch does not fail: the task is resumed and the
\* tracer goes on
C17_FailedReadAbandons ==
    PathReadFailed
      => /\ Events(out) = <<>>
         /\ last.ret = 0
         /\ run = "running"
         /\ last.resumed = <<procs[last.slot].tid>>

\* the read of open()'s path failed and the tracer has crashed on the string
\* it did not get
C17_FailedReadCrashed ==
    /\ PathReadFailed
    /\ EntryOf(last.mode, last.nr).name = "open"
    /\ last.ub /\ run = "crashed"
    /\ last.resumed = <<>>

\* the execve exit handler runs on slot t, which holds no scratch, and no
\* task of the registry is the caller the sibling search looks for
NoCaller(t) ==
    /\ Dispatched(t) /\ last'.kind = "exit"
    /\ last'.tread = "entry"
    /\ EntryOf(last'.mode, last'.nr).proc_exit = "syscall_execve_out"
    /\ procs[t].syscall_info.isnull
    /\ MidExecve([procs EXCEPT ![t].current_syscall = last'.nr], procs[t].tgid,
                 EntryOf(last'.mode, last'.nr).udata) = {}

\* C18: in that case the dispatch fails with an internal error logged, emits
\* no add_exit and no add_exec, frees no task and uses no scratch
C18_NoCallerIsReported ==
    [][\A t \in Slots :
          NoCaller(t)
            => /\ last'.ret = -1 /\ run' = "failed"
               /\ \E k \in 1..Len(out') : out'[k].op = "log_critical"
               /\ Events(out') = <<>>
               /\ \A j \in Slots : procs'[j].status = procs[j].status
               /\ ~last'.ub]_vars

\* the exit of an x32 execve no task had entered was dispatched on a task,
\* which was reported as exited and lost its slot
C18_StrayExitFreesTask ==
    /\ last.kind = "exit" /\ last.nr = X32_SYSCALL_BIT + 520
    /\ last.call # <<last.mode, last.nr>>
    /\ last.ub
    /\ procs[last.slot].status = PROCESS_FREE
    /\ Len(Exits(out)) = 1
    /\ Exits(out)[1].id = procs[last.slot].identifier

\* C19: whenever the fork exit handler resumes the child, the dispatch has
\* already emitted the child's add_process
C19_AddProcessBeforeResume ==
    [][\A t \in Slots :
          ForkExited(t)
            => \A k \in 1..Len(last'.resumed) :
                  last'.resumed[k] = last'.retvalue
                    => \E n \in 1..last'.resumedAt[k] :
                          out'[n].op = "add_process"]_vars

\* a fork exit found its child registered UNKNOWN: the child was resumed when
\* the dispatch had emitted nothing, and its add_process came after
C19_ResumedBeforeAddProcess ==
    /\ last.kind = "exit" /\ last.retvalue > 0
    /\ EntryOf(last.mode, last.nr).proc_exit = "syscall_forking"
    /\ last.resumed = <<last.retvalue, procs[last.slot].tid>>
    /\ last.resumedAt[1] = 0
    /\ Len(Events(out)) = 1 /\ Events(out)[1].op = "add_process"
    /\ \E j \in Slots : /\ procs[j].tid = last.retvalue
                        /\ procs[j].status = PROCESS_ATTACHED
                        /\ procs[j].identifier = Events(out)[1].n

\* a failed execve exit is dispatched on slot t with the scratch of task c:
\* t's own, or that of the first thread of t's group that is in execve
FailedExecve(c, t) ==
    /\ Dispatched(t) /\ last'.kind = "exit"
    /\ last'.tread = "entry"
    /\ EntryOf(last'.mode, last'.nr).proc_exit = "syscall_execve_out"
    /\ last'.retvalue < 0
    /\ ~procs[c].syscall_info.isnull
    /\ IF ~procs[t].syscall_info.isnull THEN c = t
       ELSE /\ c \in MidExecve(procs, procs[t].tgid, EntryOf(last'.mode, last'.nr).udata)
            /\ \A k \in MidExecve(procs, procs[t].tgid,
                                  EntryOf(last'.mode, last'.nr).udata) : c <= k

\* C20: a failed execve exit emits no add_exec and no add_files_from_proc,
\* releases the scratch, and leaves the task that entered execve with its
\* status and its wd
C20_FailedExecveKeepsCaller ==
    [][\A c, t \in Slots :
          FailedExecve(c, t)
            => /\ \A k \in 1..Len(out') :
                    out'[k].op \notin {"add_exec", "add_files_from_proc"}
               /\ procs'[c].syscall_info.isnull
               /\ procs'[c].status = procs[c].status
               /\ procs'[c].wd = procs[c].wd]_vars

\* an execve entered by a thread has failed and the failure was reported on
\* the leader: no add_exec was emitted and the scratch is gone, but the
\* thread, still inside its execve, has lost its slot and its wd
C20_FailedExecveFreesCaller ==
    /\ last.kind = "exit" /\ last.nr = 59 /\ last.retvalue < 0 /\ ~last.ub
    /\ \A k \in 1..Len(out) : out[k].op # "add_exec"
    /\ \E c \in Slots :
          /\ c # last.slot
          /\ procs[c].tgid = procs[last.slot].tgid
          /\ procs[c].in_syscall /\ procs[c].current_syscall = 59
          /\ procs[c].syscall_info.isnull
          /\ procs[c].status = PROCESS_FREE
          /\ procs[c].wd = FREED

\* an exit stop on slot t reports index 59 or 11; callers are the tasks the
\* workaround of syscall_handle() looks for
ExecveIndexExit(t) ==
    /\ Dispatched(t) /\ last'.kind = "exit"
    /\ StripX32(last'.nr) \in {59, 11}

WorkaroundCallers(t) ==
    MidExecve([procs EXCEPT ![t].current_syscall = last'.nr], procs[t].tgid,
              StripX32(last'.nr))

\* C21: index 59 on a task in 32-bit mode, or 11 on one in 64-bit mode, is
\* dispatched with the execve entry of the ABI that number is execve in when
\* a task of the group is in that execve; an index 59 or 11 with no such task
\* is dispatched with the entry of the task's own table
C21_WorkaroundElseOwnTable ==
    [][\A t \in Slots :
          ExecveIndexExit(t)
            => /\ (WorkaroundCallers(t) # {} /\ StripX32(last'.nr) = 59
                      /\ last'.mode = MODE_I386)
                    => /\ last'.tread = "entry"
                       /\ last'.entry = syscall_tables[SYSCALL_X86_64].entries[59]
               /\ (WorkaroundCallers(t) # {} /\ StripX32(last'.nr) = 11
                      /\ last'.mode = MODE_X86_64)
                    => /\ last'.tread = "entry"
                       /\ last'.entry = syscall_tables[SYSCALL_I386].entries[11]
               /\ WorkaroundCallers(t) = {}
                    => last'.entry = EntryOf(last'.mode, last'.nr)]_vars

\* an exit stop reported execve's own number 59 on a 64-bit task while no
\* task of the group was in execve: no entry was taken, no handler ran, and
\* the task was flipped and resumed
C21_NoCallerNoDispatch ==
    /\ last.kind = "exit" /\ last.nr = 59 /\ last.mode = MODE_X86_64
    /\ EntryOf(last.mode, last.nr).proc_exit = "syscall_execve_out"
    /\ last.tread = "none" /\ last.entry = NullEntry
    /\ out = <<>>
    /\ ~procs[last.slot].in_syscall
    /\ last.resumed = <<procs[last.slot].tid>>

\* the exit of an *at syscall with dirfd AT_FDCWD was dispatched on slot t
\* and syscall_xxx_at() returned
CwdAtExit(t) ==
    /\ Dispatched(t) /\ last'.kind = "exit"
    /\ last'.tread = "entry"
    /\ last'.entry.proc_exit = "syscall_xxx_at"
    /\ procs[t].params[0] = AT_FDCWD
    /\ run' # "crashed"

\* C22: after an *at dispatch with AT_FDCWD the six argument registers are
\* what they were before it, whether the inner handler succeeded or failed,
\* and the inner handler saw each register one place to the left
C22_ParamsRestored ==
    [][\A t \in Slots :
          CwdAtExit(t)
            => /\ procs'[t].params = procs[t].params
               /\ \A k \in 0..(PROCESS_ARGS - 2) :
                     ShiftParams(procs[t].params)[k] = procs[t].params[k + 1]
               /\ UnshiftParams(ShiftParams(procs[t].params), AT_FDCWD)
                     = procs[t].params]_vars

\* an openat(AT_FDCWD, "b") whose add_file_open the sink refused: the
\* dispatch failed and the task's registers are those of the entry
C22_RestoredAfterFailure ==
    /\ last.kind = "exit" /\ last.entry.proc_exit = "syscall_xxx_at"
    /\ run = "failed" /\ last.sinkfail = 1
    /\ Len(Events(out)) = 1 /\ Events(out)[1].op = "add_file_open"
    /\ procs[last.slot].params[0] = AT_FDCWD
    /\ procs[last.slot].params[1] = 2
    /\ \A k \in 3..5 : procs[last.slot].params[k] = 10 + k

\* the scratch of an execve: syscall_info != NULL
HasScratch(p) == ~p.syscall_info.isnull

\* the exit dispatched on slot t runs the execve exit handler on the scratch
\* of task c: t's own, or that of the first task of t's group in that execve
ScratchUsed(c, t) ==
    /\ Dispatched(t) /\ last'.kind = "exit"
    /\ last'.tread = "entry"
    /\ last'.entry.proc_exit = "syscall_execve_out"
    /\ HasScratch(procs[c])
    /\ IF HasScratch(procs[t]) THEN c = t
       ELSE /\ c \in MidExecve(procs, procs[t].tgid, last'.entry.udata)
            /\ \A k \in MidExecve(procs, procs[t].tgid, last'.entry.udata) : c <= k

\* what C23 says of the step from one stop to the next
ScratchRules ==
    /\ \A j \in Slots :
         HasScratch(procs'[j])
           => /\ procs'[j].in_syscall
              /\ EntryOf(procs'[j].mode, procs'[j].current_syscall).proc_entry
                    = "syscall_execve_in"
    /\ \A j \in Slots :
         (~HasScratch(procs[j]) /\ HasScratch(procs'[j]))
           => /\ last'.kind = "entry" /\ last'.slot = j
              /\ last'.entry.proc_entry = "syscall_execve_in"
    /\ \A c, t \in Slots :
         ((Dispatched(t) /\ last'.kind = "exit" /\ c = t /\ HasScratch(procs[t]))
             \/ ScratchUsed(c, t))
           => ~HasScratch(procs'[c])

InGroup(p) == p.status \in {PROCESS_ALLOCATED, PROCESS_ATTACHED}

\* the leaders of thread group g among the tasks of ps
Leaders(ps, g) == {j \in Slots : InGroup(ps[j]) /\ ps[j].tgid = g /\ ps[j].tid = g}

\* every thread group of ps holds exactly one task with tid = tgid
OneLeader(ps) ==
    \A j \in Slots : InGroup(ps[j]) => Cardinality(Leaders(ps, ps[j].tgid)) = 1

SwapOffLeader ==
    \E t \in Slots :
       /\ Dispatched(t) /\ last'.kind = "exit"
       /\ last'.entry.proc_exit = "syscall_execve_out"
       /\ ~HasScratch(procs[t])
       /\ procs[t].tid # procs[t].tgid

NetExit(t) ==
    /\ Dispatched(t) /\ last'.kind = "exit"
    /\ last'.tread = "entry"
    /\ last'.entry.proc_exit \in {"syscall_connect", "syscall_accept", "syscall_socketcall"}

\* the warnings among a sequence of sink and log calls
Warnings(o) == SelectSeq(o, LAMBDA e : e.op = "log_warn")

\* a socketcall whose sub-call is neither SYS_CONNECT nor SYS_ACCEPT
OtherSubcall(t) ==
    /\ last'.entry.proc_exit = "syscall_socketcall"
    /\ procs[t].params[0] \notin {SYS_CONNECT, SYS_ACCEPT}

\* the address length the handler of the exit on slot t tests
AddrLenOf(t) ==
    LET p == procs[t].params
        h == last'.entry.proc_exit
    IN IF h = "syscall_connect" THEN p[2]
       ELSE IF h = "syscall_accept" THEN TraceeWord(p[2])
       ELSE IF p[0] \in {SYS_CONNECT, SYS_ACCEPT} THEN TraceeWord(p[1])
       ELSE 0

ForkOfKnown(t, j) ==
    /\ ForkExited(t) /\ last'.retvalue > 0
    /\ last'.tread = "entry"
    /\ procs[j].status # PROCESS_FREE
    /\ procs[j].tid = last'.retvalue

\* how often tid was resumed in the dispatch
ResumeCount(tid) == Cardinality({k \in 1..Len(last'.resumed) : last'.resumed[k] = tid})

\* C26: a child the registry holds as UNKNOWN is promoted to ATTACHED,
\* resumed once, and given tgid, wd and (from the add_process the sink
\* accepts) identifier as a fresh child is; for a task held with another
\* status the handler fails, emits no add_process and leaves the task alone
C26_KnownChild ==
    [][\A t, j \in Slots :
          ForkOfKnown(t, j)
            => IF procs[j].status = PROCESS_UNKNOWN
               THEN /\ procs'[j].status = PROCESS_ATTACHED
                    /\ ResumeCount(procs[j].tid) = 1
                    /\ procs'[j].tgid =
                          IF IsThreadClone(last'.mode, last'.nr, procs[t].params)
                          THEN procs[t].tgid ELSE procs[j].tid
                    /\ procs'[j].wd = procs[t].wd
                    /\ Len(Adds(out')) = 1
                    /\ Adds(out')[1].parent = procs[t].identifier
                    /\ last'.sinkfail # 1
                         => /\ procs'[j].identifier = Adds(out')[1].id
                            /\ procs'[j].identifier = nextId
                            /\ last'.ret = 0
               ELSE /\ last'.ret = -1 /\ run' = "failed"
                    /\ Adds(out') = <<>> /\ Events(out') = <<>>
                    /\ ResumeCount(procs[j].tid) = 0
                    /\ procs'[j].status = procs[j].status
                    /\ procs'[j].tgid = procs[j].tgid
                    /\ procs'[j].wd = procs[j].wd
                    /\ procs'[j].identifier = procs[j].identifier]_vars

\* a clone returned the tid of a thread that is already attached: the
\* dispatch failed with an internal error and the thread is as it was
C26_RunningChildRefused ==
    /\ last.kind = "exit" /\ last.retvalue > 0 /\ last.ret = -1 /\ run = "failed"
    /\ last.entry.proc_exit = "syscall_forking"
    /\ Len(out) = 1 /\ out[1].op = "log_critical" /\ out[1].id = last.retvalue
    /\ \E j \in Slots : /\ j # last.slot
                        /\ procs[j].tid = last.retvalue
                        /\ procs[j].status = PROCESS_ATTACHED
                        /\ procs[j].identifier # 0

\* slot j holds the child that the fork exit dispatched on slot t names
ForkChild(t, j) ==
    /\ Dispatched(t) /\ last'.kind = "exit"
    /\ last'.entry.proc_exit = "syscall_forking"
    /\ last'.retvalue > 0
    /\ procs'[j].tid = last'.retvalue
    /\ procs[j].status \in {PROCESS_FREE, PROCESS_UNKNOWN}

\* slot j is the sibling the execve exit dispatched on slot t takes for the
\* caller, and the dispatch has freed it
SiblingFreed(t, j) ==
    /\ j # t
    /\ ScratchUsed(j, t)
    /\ procs'[j].status = PROCESS_FREE
    /\ procs'[j].tid = procs[j].tid /\ procs'[j].tgid = procs[j].tgid
    /\ procs'[j].identifier = procs[j].identifier

\* C27: a dispatch on slot t changes no other task, but for the child a fork
\* exit names and the sibling an execve exit takes for the caller, which
\* becomes FREE with no scratch
C27_OthersUntouched ==
    [][\A t, j \in Slots :
          (Dispatched(t) /\ j # t)
            => \/ Core(procs'[j]) = Core(procs[j])
               \/ ForkChild(t, j)
               \/ SiblingFreed(t, j) /\ ~HasScratch(procs'[j])]_vars

\* C27, amended: the sibling becomes FREE, with no scratch when the dispatch
\* returns success
C27_OthersUntouchedOrFreed ==
    [][\A t, j \in Slots :
          (Dispatched(t) /\ j # t)
            => \/ Core(procs'[j]) = Core(procs[j])
               \/ ForkChild(t, j)
               \/ /\ SiblingFreed(t, j)
                  /\ run' = "running" => ~HasScratch(procs'[j])]_vars

\* a thread has changed its directory and the leader of its group is where
\* it was
C27_ChdirOfThreadOnly ==
    /\ last.kind = "exit" /\ last.entry.proc_exit = "syscall_chdir"
    /\ last.retvalue >= 0 /\ run = "running"
    /\ procs[last.slot].tid # procs[last.slot].tgid
    /\ procs[last.slot].wd = <<Slash, "a", Slash, "b">>
    /\ \E j \in Slots : /\ procs[j].status = PROCESS_ATTACHED
                        /\ procs[j].tid = procs[last.slot].tgid
                        /\ procs[j].wd = <<Slash>>

\* a syscall-entry stop was dispatched on slot t
EntryDispatched(t) == Dispatched(t) /\ last'.kind = "entry"

\* C28: an entry dispatch emits no sink event and changes nothing in the
\* registry but the task's in_syscall flag and, for an execve entry only,
\* its syscall_info; every sink event is emitted by an exit dispatch
C28_EntryEmitsNothing ==
    [][/\ \A t \in Slots :
            EntryDispatched(t)
              => /\ ~procs[t].in_syscall
                 /\ Events(out') = <<>>
                 /\ \A j \in Slots : j # t => Core(procs'[j]) = Core(procs[j])
                 /\ procs'[t].status = procs[t].status
                 /\ procs'[t].tid = procs[t].tid
                 /\ procs'[t].tgid = procs[t].tgid
                 /\ procs'[t].wd = procs[t].wd
                 /\ procs'[t].identifier = procs[t].identifier
                 /\ procs'[t].current_syscall = last'.nr
                 /\ run' # "crashed" => procs'[t].in_syscall
                 /\ procs'[t].syscall_info # procs[t].syscall_info
                      => last'.entry.proc_entry = "syscall_execve_in"
                 /\ nextId' = nextId
       /\ Events(out') # <<>> => last'.kind = "exit"]_vars

\* the entry of execve("/a") was dispatched: the scratch is filled, the task
\* is in its syscall, and nothing was emitted
C28_ExecveEntrySilent ==
    /\ last.kind = "entry" /\ last.entry.proc_entry = "syscall_execve_in"
    /\ ~last.ub /\ run = "running"
    /\ out = <<>>
    /\ procs[last.slot].in_syscall
    /\ HasScratch(procs[last.slot])
    /\ procs[last.slot].syscall_info.binary = <<Slash, "a">>
    /\ procs[last.slot].wd = <<Slash>>
====
